---- MODULE Spec2Model ----
(***************************************************************************)
(* Verification model of the projection and label-placement engine:        *)
(*   - src/src/symbol/projection.ts        (line-following glyph layout)   *)
(*   - src/src/geo/projection/globe_covering_tiles.ts and                  *)
(*     src/unnamed/part_005                (tile coverage, both variants)  *)
(*   - src/src/render/projection_manager.ts, globe_transform.ts            *)
(*                                         (transitions, error loop)       *)
(*                                                                         *)
(* Numbers.  The code computes in IEEE doubles.  The model computes in     *)
(* integers and draws its inputs from families on which every division    *)
(* and every square root the code performs is exact (axis-aligned         *)
(* projected segments, projective matrices whose w divides the            *)
(* numerators).  Clip-space coordinates are kept multiplied by half the   *)
(* viewport size (HalfW, HalfH), so that the viewport conversion          *)
(* (x * 0.5 + 0.5) * width is x + HalfW on the stored value.               *)
(* Angles are in degrees.                                                  *)
(***************************************************************************)
EXTENDS Integers, Sequences, FiniteSets, TLC

VARIABLES
    \* ---- label placement (symbol/projection.ts)
    scene,        \* the inputs of one placement: vertex buffer, camera, bucket
    lpc,          \* "idle" | "placed" | "threw" | "placedAgain" | "updated" | "updateThrew"
    call,         \* arguments of the last direct placeGlyphAlongLine call
    placed,       \* its result
    again,        \* the result of the same call repeated with the cache it left
    stream,       \* dynamicLayoutVertexArray after updateLineLabels
    outcomes,     \* per-symbol log of updateLineLabels
    \* ---- tile coverage
    cov,          \* camera state and options of one coverage query
    result,       \* the leaves in the order the traversal emitted them
    cpc,          \* position: "idle" | "returned"
    returned,     \* the returned (sorted) list
    \* ---- projection manager
    pm,           \* ProjectionManager + ProjectionErrorMeasurement + clock
    \* ---- globe transform (geo/projection/globe_transform.ts)
    gt,           \* GlobeTransform: camera, matrices, clipping plane
    \* ---- error measurement (ProjectionErrorMeasurement) on its own
    meas,         \* the measurement object and the GPU's answer to the last call
    \* ---- camera constraints (MercatorTransform.getConstrained)
    tf,           \* the transform's limits, one request and its result
    \* ---- tile bounds (TileBounds)
    tb            \* the bounds given, the object built and one contains() query

labelVars == <<scene, lpc, call, placed, stream, outcomes, again>>
coverVars == <<cov, result, cpc, returned>>
projVars  == <<pm>>
moreVars  == <<gt, meas, tf, tb>>
vars == <<scene, lpc, call, placed, stream, outcomes,
          cov, result, cpc, returned, pm, gt, meas, tf, tb>>

\* The parts added to the model later are idle in the label, coverage and
\* projection-manager specifications.
IdleGlobe == gt = [pc |-> "idle"]
IdleError == meas = [pc |-> "idle"]
IdleConstrain == tf = [pc |-> "idle"]
IdleBounds == tb = [pc |-> "idle"]
IdleMore == IdleGlobe /\ IdleError /\ IdleConstrain /\ IdleBounds

----------------------------------------------------------------------------
(* Small arithmetic helpers                                                *)

Abs(n) == IF n < 0 THEN -n ELSE n
Min(a, b) == IF a <= b THEN a ELSE b
Max(a, b) == IF a >= b THEN a ELSE b
Sign(n) == IF n > 0 THEN 1 ELSE IF n < 0 THEN -1 ELSE 0

\* Math.sqrt on the perfect squares the input families produce.
RECURSIVE SqrtFrom(_, _)
SqrtFrom(n, r) == IF (r + 1) * (r + 1) > n THEN r ELSE SqrtFrom(n, r + 1)
Sqrt(n) == SqrtFrom(n, 0)
IsSquare(n) == Sqrt(n) * Sqrt(n) = n

\* F applied to the value of v: v is evaluated once, however often F uses it.
Eval(v, F(_)) == CHOOSE r \in {F(x) : x \in {v}} : TRUE

----------------------------------------------------------------------------
(* @mapbox/point-geometry, as used by projection.ts                        *)

Pt(x, y) == [x |-> x, y |-> y]
PAdd(p, q) == Pt(p.x + q.x, p.y + q.y)
PSub(p, q) == Pt(p.x - q.x, p.y - q.y)
PMult(p, k) == Pt(p.x * k, p.y * k)
PMag(p) == Sqrt(p.x * p.x + p.y * p.y)
\* _unit(): division by the magnitude; exact on axis-aligned vectors.
PUnit(p) == Pt(p.x \div PMag(p), p.y \div PMag(p))
\* _perp(): (x, y) -> (-y, x)
PPerp(p) == Pt(-p.y, p.x)
\* p * (num / den), the quotient applied as the code applies it (one scalar)
\* A scaling that ignores its factor (the variant C1 is checked against).
PScaleWhole(p, num, den) == p

PScale(p, num, den) == Pt((p.x * num) \div den, (p.y * num) \div den)

\* Math.atan2 on axis-aligned vectors, in degrees.
Atan2Deg(dy, dx) ==
    IF dy = 0 THEN (IF dx >= 0 THEN 0 ELSE 180)
    ELSE IF dy > 0 THEN 90 ELSE -90

----------------------------------------------------------------------------
(* Projection of tile coordinates (projection.ts)                          *)

\* Viewport of the painter/transform, in pixels (width = 2 * HalfW).
HalfW == 8
HalfH == 4
Width == 2 * HalfW
Height == 2 * HalfH

\* A mat4 restricted to the entries xyTransformMat4 reads.  Rows 0 and 1 of a
\* matrix that maps to clip space are stored multiplied by HalfW and HalfH.
Mat(m0, m1, m3, m4, m5, m7, m12, m13, m15) ==
    [m0 |-> m0, m1 |-> m1, m3 |-> m3, m4 |-> m4, m5 |-> m5, m7 |-> m7,
     m12 |-> m12, m13 |-> m13, m15 |-> m15]

xyTransformMat4(a, m) ==
    [x |-> m.m0 * a.x + m.m4 * a.y + m.m12,
     y |-> m.m1 * a.x + m.m5 * a.y + m.m13,
     w |-> m.m3 * a.x + m.m7 * a.y + m.m15]

\* project(point, matrix) without elevation: the perspective division.
\* exact = the division leaves no remainder (the model's numbers are the code's).
project(point, matrix) ==
    Eval(xyTransformMat4(point, matrix), LAMBDA pos :
        [point |-> IF pos.w = 0 THEN Pt(0, 0)
                   ELSE Pt(pos.x \div pos.w, pos.y \div pos.w),
         signedDistanceFromCamera |-> pos.w,
         exact |-> pos.w # 0 /\ pos.x % Abs(pos.w) = 0 /\ pos.y % Abs(pos.w) = 0])

\* getLabelPlaneMatrix with pitchWithMap = false: transform.labelPlaneMatrix *
\* posMatrix, the former mapping clip space (-1,1 top left) to viewport pixels
\* ((0,0) top left): x' = (x * 0.5 + 0.5) * width, y' = (-y * 0.5 + 0.5) * height.
getLabelPlaneMatrix(posMatrix) ==
    Mat(posMatrix.m0 + HalfW * posMatrix.m3, HalfH * posMatrix.m3 - posMatrix.m1,
        posMatrix.m3,
        posMatrix.m4 + HalfW * posMatrix.m7, HalfH * posMatrix.m7 - posMatrix.m5,
        posMatrix.m7,
        posMatrix.m12 + HalfW * posMatrix.m15, HalfH * posMatrix.m15 - posMatrix.m13,
        posMatrix.m15)

\* getGlCoordMatrix with pitchWithMap = false: transform.glCoordMatrix, the
\* inverse viewport conversion (pixels to clip space).
getGlCoordMatrix == Mat(1, 0, 0, 0, -1, 0, -HalfW, HalfH, 1)

\* MercatorProjection.project: 'Not implemented.'
MercatorProject(x, y) ==
    [kind |-> "throw", point |-> Pt(0, 0), signedDistanceFromCamera |-> 0]

\* The spherical variant's projection of a tile point to clip space: its
\* matrix applied to the point, then the perspective division.  The matrix
\* (pa.globeMatrix) stands for the tile-to-sphere mapping followed by the globe
\* projection matrix.
GlobeProject(x, y, pa) ==
    Eval(project(Pt(x, y), pa.globeMatrix), LAMBDA r :
        [kind |-> IF r.exact THEN "ok" ELSE "inexact",
         point |-> r.point,
         signedDistanceFromCamera |-> r.signedDistanceFromCamera])

\* projectionManager.project(x, y, unwrappedTileID) of the active variant
ProjectionProject(x, y, pa) ==
    IF pa.special THEN GlobeProject(x, y, pa) ELSE MercatorProject(x, y)

\* The explicit clip-space-to-viewport conversion of projection.ts:534,548
ToViewport(p) == Pt(p.x + HalfW, HalfH - p.y)

projectTileCoordinatesToViewport(x, y, pa) ==
    IF ~pa.pitchWithMap /\ pa.special
    THEN Eval(ProjectionProject(x, y, pa), LAMBDA r :
             [kind |-> r.kind, point |-> ToViewport(r.point),
              signedDistanceFromCamera |-> r.signedDistanceFromCamera])
    ELSE Eval(project(Pt(x, y), pa.labelPlaneMatrix), LAMBDA r :
             [kind |-> IF r.exact THEN "ok" ELSE "inexact",
              point |-> r.point,
              signedDistanceFromCamera |-> r.signedDistanceFromCamera])

\* A vector the code normalises or measures exactly: axis-aligned, not zero.
AxisNZ(p) == (p.x = 0) # (p.y = 0)
Axis(p) == p.x = 0 \/ p.y = 0

\* lineVertexArray.getx/gety(index)
Vertex(pa, index) == pa.lineVertexArray[index]

\* A failed step: kind is "throw" (an exception) or "inexact" (a number the
\* exact input families do not produce).
NoPoint(kind, cache) == [kind |-> kind, point |-> Pt(0, 0), cache |-> cache]

\* The projection cache with a read of lineVertexArray[index] logged.
ReadLog(cache, index) == [cache EXCEPT !.reads = @ \cup {index}]

\* The projection cache with the projection of lineVertexArray[index] logged:
\* the vertex is read and handed to projectTileCoordinatesToViewport.
ProjectLog(cache, index) == [ReadLog(cache, index) EXCEPT !.projected = @ \cup {index}]

\* The vertex is behind the plane of the camera (projection.ts:521-538):
\* a vertex along the line that is far enough to include the glyph.
syntheticVertex(index, pa, cache, sva) ==
    LET previousTilePoint == IF sva.distanceFromAnchor = 0 THEN pa.tileAnchorPoint
                             ELSE Vertex(pa, index - sva.direction)
        c2 == IF sva.distanceFromAnchor = 0 THEN cache
              ELSE ReadLog(cache, index - sva.direction)
        minimumLength == sva.absOffsetX - sva.distanceFromAnchor + 1
        back == PSub(previousTilePoint, Vertex(pa, index))
    IN
    IF ~AxisNZ(back) THEN NoPoint("inexact", c2)
    ELSE
    Eval(PAdd(previousTilePoint, PUnit(back)), LAMBDA unitVertextoBeProjected :
    Eval(ProjectionProject(unitVertextoBeProjected.x, unitVertextoBeProjected.y, pa),
         LAMBDA pu :
            IF pu.kind # "ok" THEN NoPoint(pu.kind, c2)
            ELSE
            Eval(PSub(sva.previousVertex, ToViewport(pu.point)),
                 LAMBDA projectedUnitSegment :
                    IF ~AxisNZ(projectedUnitSegment) THEN NoPoint("inexact", c2)
                    ELSE [kind |-> "ok",
                          point |-> PAdd(sva.previousVertex,
                                         PScale(projectedUnitSegment, minimumLength,
                                                PMag(projectedUnitSegment))),
                          cache |-> c2])))

\* A projectVertexToViewport that does not look the vertex up in the cache.
projectVertexToViewportUncached(index, pa, cache, sva) ==
    Eval(projectTileCoordinatesToViewport(Vertex(pa, index).x, Vertex(pa, index).y, pa),
         LAMBDA projection :
            IF projection.kind # "ok" THEN NoPoint(projection.kind, ProjectLog(cache, index))
            ELSE IF projection.signedDistanceFromCamera > 0
            THEN [kind |-> "ok", point |-> projection.point,
                  cache |-> [ProjectLog(cache, index) EXCEPT
                                !.projections = (index :> projection.point) @@ @]]
            ELSE syntheticVertex(index, pa, ProjectLog(cache, index), sva))

\* projectVertexToViewport(index, projectionArgs, syntheticVertexArgs).
\* cache is projectionArgs.projectionCache; only a projection in front of the
\* camera is stored in it.
projectVertexToViewport(index, pa, cache, sva) ==
    IF index \in DOMAIN cache.projections
    THEN [kind |-> "ok", point |-> cache.projections[index], cache |-> cache]
    ELSE
    Eval(projectTileCoordinatesToViewport(Vertex(pa, index).x, Vertex(pa, index).y, pa),
         LAMBDA projection :
            IF projection.kind # "ok" THEN NoPoint(projection.kind, ProjectLog(cache, index))
            ELSE IF projection.signedDistanceFromCamera > 0
            THEN [kind |-> "ok", point |-> projection.point,
                  cache |-> [ProjectLog(cache, index) EXCEPT
                                !.projections = (index :> projection.point) @@ @]]
            ELSE syntheticVertex(index, pa, ProjectLog(cache, index), sva))

\* transformToOffsetNormal(segmentVector, offset, direction)
transformToOffsetNormal(segmentVector, offset, direction) ==
    PMult(PPerp(PUnit(segmentVector)), offset * direction)

\* findLineIntersection(a1, a2, b1, b2) of util/util: the intersection of the two
\* infinite lines, null (has = FALSE) when they are parallel.
findLineIntersection(a1, a2, b1, b2) ==
    LET aDeltaY == a2.y - a1.y
        aDeltaX == a2.x - a1.x
        bDeltaY == b2.y - b1.y
        bDeltaX == b2.x - b1.x
        denominator == (bDeltaY * aDeltaX) - (bDeltaX * aDeltaY)
        originDeltaY == a1.y - b1.y
        originDeltaX == a1.x - b1.x
        num == bDeltaX * originDeltaY - bDeltaY * originDeltaX
    IN
    IF denominator = 0 THEN [has |-> FALSE, point |-> Pt(0, 0), exact |-> TRUE]
    ELSE [has |-> TRUE,
          point |-> Pt(a1.x + (num * aDeltaX) \div denominator,
                       a1.y + (num * aDeltaY) \div denominator),
          exact |-> (num * aDeltaX) % Abs(denominator) = 0
                    /\ (num * aDeltaY) % Abs(denominator) = 0]

\* projectionCache.offsets[index] = point; return it
StoreOffset(index, point, cache) ==
    [kind |-> "ok", point |-> point,
     cache |-> [cache EXCEPT !.offsets = (index :> point) @@ @]]

\* findOffsetIntersectionPoint(index, prevToCurrentOffsetNormal, currentVertex,
\*   lineStartIndex, lineEndIndex, offsetPreviousVertex, lineOffsetY, ...)
findOffsetIntersectionPoint(index, prevToCurrentOffsetNormal, currentVertex, lineStartIndex, lineEndIndex, offsetPreviousVertex, lineOffsetY, pa, cache, sva) ==
    IF index \in DOMAIN cache.offsets
    THEN [kind |-> "ok", point |-> cache.offsets[index], cache |-> cache]
    ELSE IF index + sva.direction < lineStartIndex \/ index + sva.direction >= lineEndIndex
    THEN \* the end of the line, no intersection to calculate
         StoreOffset(index, PAdd(currentVertex, prevToCurrentOffsetNormal), cache)
    ELSE
    Eval(projectVertexToViewport(index + sva.direction, pa, cache, sva), LAMBDA nv :
        IF nv.kind # "ok" THEN NoPoint(nv.kind, nv.cache)
        ELSE IF ~AxisNZ(PSub(nv.point, currentVertex)) THEN NoPoint("inexact", nv.cache)
        ELSE
        Eval(transformToOffsetNormal(PSub(nv.point, currentVertex), lineOffsetY,
                                     sva.direction),
             LAMBDA currentToNextOffsetNormal :
        Eval(findLineIntersection(offsetPreviousVertex,
                                  PAdd(currentVertex, prevToCurrentOffsetNormal),
                                  PAdd(currentVertex, currentToNextOffsetNormal),
                                  PAdd(nv.point, currentToNextOffsetNormal)),
             LAMBDA li :
                IF ~li.exact THEN NoPoint("inexact", nv.cache)
                ELSE StoreOffset(index,
                                 IF li.has THEN li.point
                                 ELSE PAdd(currentVertex, prevToCurrentOffsetNormal),
                                 nv.cache))))

\* A result of placeGlyphAlongLine that is not a placement.
NoGlyph(kind, cache) ==
    [kind |-> kind, point |-> Pt(0, 0), angle |-> 0, path |-> <<>>,
     last |-> <<Pt(0, 0), Pt(0, 0)>>, cache |-> cache]

\* The while loop of placeGlyphAlongLine (projection.ts:694-741) and the
\* interpolation after it (743-755).  st holds the loop's local variables;
\* hasOIP/hasOP tell whether offsetIntersectionPoint/offsetPreviousVertex are
\* defined.  The loop body is split where it calls a function: glyphWalk is the
\* loop test and the range check, walkVertex the body after the vertex has been
\* projected, walkOffset the body after the vertex used for the normal is known.
\* The loop test (projection.ts:694): the offset lies beyond the current segment.
offsetBeyondSegment(distanceFromAnchor, currentSegmentDistance, absOffsetX) ==
    distanceFromAnchor + currentSegmentDistance <= absOffsetX

\* A range check that lets the walk reach the vertex after the line's last
\* (the variant C2 is checked against).
outsideLineLate(currentIndex, lineStartIndex, lineEndIndex) ==
    currentIndex < lineStartIndex \/ currentIndex > lineEndIndex

\* The range check (projection.ts:698): the walk has left the line's vertices.
outsideLine(currentIndex, lineStartIndex, lineEndIndex) ==
    currentIndex < lineStartIndex \/ currentIndex >= lineEndIndex

RECURSIVE glyphWalk(_, _, _)
RECURSIVE walkVertex(_, _, _, _, _)
RECURSIVE walkOffset(_, _, _, _, _, _)

glyphWalk(st, a, pa) ==
    IF ~offsetBeyondSegment(st.distanceFromAnchor, st.currentSegmentDistance, a.absOffsetX)
    THEN \* The point is on the current segment. Interpolate to find it.
         LET base == IF st.hasOP THEN st.offsetPreviousVertex ELSE st.previousVertex
             p == PAdd(PScale(st.currentLineSegment,
                              a.absOffsetX - st.distanceFromAnchor,
                              st.currentSegmentDistance), base)
             segmentAngle == a.angle + Atan2Deg(st.currentVertex.y - st.previousVertex.y,
                                                st.currentVertex.x - st.previousVertex.x)
         IN [kind |-> "placed", point |-> p,
             angle |-> IF a.rotateToLine THEN segmentAngle ELSE 0,
             path |-> Append(st.pathVertices, p),
             last |-> <<base, PAdd(base, st.currentLineSegment)>>,
             cache |-> st.cache]
    ELSE
    LET currentIndex == st.currentIndex + a.direction IN
    IF outsideLine(currentIndex, a.lineStartIndex, a.lineEndIndex)
    THEN NoGlyph("null", st.cache)   \* offset does not fit on the projected line
    ELSE
    LET sva == [absOffsetX |-> a.absOffsetX, direction |-> a.direction,
                distanceFromAnchor |-> st.distanceFromAnchor + st.currentSegmentDistance,
                previousVertex |-> st.currentVertex]
    IN Eval(projectVertexToViewport(currentIndex, pa, st.cache, sva),
            LAMBDA cv : walkVertex(st, a, pa, sva, cv))

walkVertex(st, a, pa, sva, cv) ==
    IF cv.kind # "ok" THEN NoGlyph(cv.kind, cv.cache)
    ELSE
    LET currentIndex == st.currentIndex + a.direction
        currentVertex == cv.point
        previousVertex == sva.previousVertex
        prevToCurrent == PSub(currentVertex, previousVertex)
    IN
    IF ~Axis(prevToCurrent) THEN NoGlyph("inexact", cv.cache)
    ELSE IF a.lineOffsetY = 0
    THEN Eval([currentIndex |-> currentIndex,
               currentVertex |-> currentVertex,
               previousVertex |-> previousVertex,
               hasOIP |-> st.hasOIP, offsetIntersectionPoint |-> st.offsetIntersectionPoint,
               hasOP |-> st.hasOIP, offsetPreviousVertex |-> st.offsetIntersectionPoint,
               distanceFromAnchor |-> sva.distanceFromAnchor,
               currentSegmentDistance |-> PMag(prevToCurrent),
               currentLineSegment |-> prevToCurrent,
               pathVertices |-> Append(st.pathVertices, previousVertex),
               cache |-> cv.cache],
              LAMBDA st2 : glyphWalk(st2, a, pa))
    ELSE \* anchor directly on the vertex: look one vertex ahead for a normal
         Eval(IF PMag(prevToCurrent) = 0
              THEN projectVertexToViewport(currentIndex + a.direction, pa, cv.cache, sva)
              ELSE cv,
              LAMBDA nv : walkOffset(st, a, pa, sva, cv, nv))

walkOffset(st, a, pa, sva, cv, nv) ==
    IF nv.kind # "ok" THEN NoGlyph(nv.kind, nv.cache)
    ELSE
    LET currentIndex == st.currentIndex + a.direction
        currentVertex == cv.point
        previousVertex == sva.previousVertex
        prevToCurrent == PSub(currentVertex, previousVertex)
        normalOf == IF PMag(prevToCurrent) = 0 THEN PSub(nv.point, currentVertex)
                    ELSE prevToCurrent
    IN
    IF ~AxisNZ(normalOf) THEN NoGlyph("inexact", nv.cache)
    ELSE
    LET prevToCurrentOffsetNormal == transformToOffsetNormal(normalOf, a.lineOffsetY, a.direction)
        \* Initialize offsetPrev on our first iteration
        offsetPreviousVertex == IF st.hasOIP THEN st.offsetIntersectionPoint
                                ELSE PAdd(previousVertex, prevToCurrentOffsetNormal)
    IN
    Eval(findOffsetIntersectionPoint(currentIndex, prevToCurrentOffsetNormal,
             currentVertex, a.lineStartIndex, a.lineEndIndex, offsetPreviousVertex,
             a.lineOffsetY, pa, nv.cache, sva),
         LAMBDA ip :
            IF ip.kind # "ok" THEN NoGlyph(ip.kind, ip.cache)
            ELSE IF ~Axis(PSub(ip.point, offsetPreviousVertex))
            THEN NoGlyph("inexact", ip.cache)
            ELSE Eval([currentIndex |-> currentIndex,
                       currentVertex |-> currentVertex,
                       previousVertex |-> previousVertex,
                       hasOIP |-> TRUE, offsetIntersectionPoint |-> ip.point,
                       hasOP |-> TRUE, offsetPreviousVertex |-> offsetPreviousVertex,
                       distanceFromAnchor |-> sva.distanceFromAnchor,
                       currentSegmentDistance |-> PMag(PSub(ip.point, offsetPreviousVertex)),
                       currentLineSegment |-> PSub(ip.point, offsetPreviousVertex),
                       pathVertices |-> Append(st.pathVertices, offsetPreviousVertex),
                       cache |-> ip.cache],
                      LAMBDA st2 : glyphWalk(st2, a, pa)))

\* placeGlyphAlongLine(offsetX, lineOffsetX, lineOffsetY, flip, anchorSegment,
\*   lineStartIndex, lineEndIndex, projectionArgs, rotateToLine), with the
\*   projectionCache passed and returned explicitly.
placeGlyphAlongLine(offsetX, lineOffsetX, lineOffsetY, flip, anchorSegment, lineStartIndex, lineEndIndex, pa, cache, rotateToLine) ==
    LET combinedOffsetX == IF flip THEN offsetX - lineOffsetX ELSE offsetX + lineOffsetX
        direction0 == IF combinedOffsetX > 0 THEN 1 ELSE -1
        direction == IF flip THEN -direction0 ELSE direction0
        angle == (IF flip THEN 180 ELSE 0) + (IF direction < 0 THEN 180 ELSE 0)
        currentIndex == IF direction > 0 THEN lineStartIndex + anchorSegment
                        ELSE lineStartIndex + anchorSegment + 1
        ap == IF cache.hasAnchor
              THEN [kind |-> "ok", point |-> cache.cachedAnchorPoint]
              ELSE projectTileCoordinatesToViewport(pa.tileAnchorPoint.x,
                                                    pa.tileAnchorPoint.y, pa)
        c1 == IF cache.hasAnchor THEN cache
              ELSE [cache EXCEPT !.hasAnchor = TRUE, !.cachedAnchorPoint = ap.point,
                                 !.anchorProjections = @ + 1]
    IN
    IF ap.kind # "ok" THEN NoGlyph(ap.kind, cache)
    ELSE Eval(<<[currentIndex |-> currentIndex,
                 currentVertex |-> ap.point,
                 previousVertex |-> ap.point,
                 hasOIP |-> FALSE, offsetIntersectionPoint |-> Pt(0, 0),
                 hasOP |-> FALSE, offsetPreviousVertex |-> Pt(0, 0),
                 distanceFromAnchor |-> 0,
                 currentSegmentDistance |-> 0,
                 currentLineSegment |-> Pt(0, 0),
                 pathVertices |-> <<>>,
                 cache |-> c1],
                [absOffsetX |-> Abs(combinedOffsetX), direction |-> direction,
                 angle |-> angle, lineOffsetY |-> lineOffsetY,
                 lineStartIndex |-> lineStartIndex, lineEndIndex |-> lineEndIndex,
                 rotateToLine |-> rotateToLine], pa>>,
              LAMBDA t : glyphWalk(t[1], t[2], t[3]))

\* const projectionCache = {projections: {}, offsets: {}, cachedAnchorPoint: undefined}
\* (reads, projected and anchorProjections are bookkeeping: the vertex indices
\* read from lineVertexArray, the vertex indices projected and the number of
\* anchor projections made)
EmptyCache ==
    [projections |-> <<>>, offsets |-> <<>>, hasAnchor |-> FALSE,
     cachedAnchorPoint |-> Pt(0, 0), reads |-> {}, projected |-> {},
     anchorProjections |-> 0]

----------------------------------------------------------------------------
(* placeGlyphsAlongLine and updateLineLabels (projection.ts:175-411)       *)

Horizontal == "horizontal"
Vertical == "vertical"

\* The off-screen sentinel of hideGlyphs and a placed vertex of the dynamic
\* layout array.  s is bookkeeping: the symbol the vertex was written for.
HiddenVertex(s) == [hidden |-> TRUE, point |-> Pt(0, 0), angle |-> 0, s |-> s]
PlacedVertex(s, point, angle) == [hidden |-> FALSE, point |-> point, angle |-> angle, s |-> s]

\* A hideGlyphs that writes one glyph's vertices whatever num is (the variant
\* C5 is checked against).
hideOneGlyph(num, array, s) ==
    array \o <<HiddenVertex(s), HiddenVertex(s), HiddenVertex(s), HiddenVertex(s)>>

RECURSIVE hideGlyphs(_, _, _)
\* hideGlyphs(num, dynamicLayoutVertexArray): resize(offset + 4) per glyph
hideGlyphs(num, array, s) ==
    IF num <= 0 THEN array
    ELSE hideGlyphs(num - 1,
                    array \o <<HiddenVertex(s), HiddenVertex(s), HiddenVertex(s), HiddenVertex(s)>>,
                    s)

\* addDynamicAttributes(dynamicLayoutVertexArray, point, angle) of
\* data/bucket/symbol_bucket: the same three numbers for each of a glyph's
\* four vertices.
addDynamicAttributes(array, point, angle, s) ==
    array \o <<PlacedVertex(s, point, angle), PlacedVertex(s, point, angle),
               PlacedVertex(s, point, angle), PlacedVertex(s, point, angle)>>

\* isVisible(p, clippingBuffer), clippingBuffer = [256 / width * 2 + 1,
\* 256 / height * 2 + 1]; p is in clip space, stored times (HalfW, HalfH).
ClipPad == 256
isVisible(p) ==
    /\ p.x >= -(ClipPad + HalfW)
    /\ p.x <= ClipPad + HalfW
    /\ p.y >= -(ClipPad + HalfH)
    /\ p.y <= ClipPad + HalfH

\* requiresOrientationChange(writingMode, firstPoint, lastPoint, aspectRatio),
\* aspectRatio = width / height; the points are in clip space (stored scaled),
\* so rise > run is compared cross-multiplied.
requiresOrientationChange(writingMode, firstPoint, lastPoint) ==
    LET rise == Abs(lastPoint.y - firstPoint.y)
        run == Abs(lastPoint.x - firstPoint.x)
    IN
    IF writingMode = Horizontal /\ rise * HalfW * Height > run * Width * HalfH
    THEN "useVertical"
    ELSE IF (IF writingMode = Vertical THEN firstPoint.y < lastPoint.y
             ELSE firstPoint.x > lastPoint.x)
    THEN "needsFlipping"
    ELSE "none"

\* glyphOffsetArray.getoffsetX of the first and of the last glyph of a symbol
\* A first-glyph offset read from the last glyph's slot (the variant C4 is
\* checked against).
firstGlyphOffsetFromLast(glyphOffsetArray, symbol) ==
    glyphOffsetArray[symbol.glyphStartIndex + symbol.numGlyphs - 1]

firstGlyphOffset(glyphOffsetArray, symbol) == glyphOffsetArray[symbol.glyphStartIndex]
lastGlyphOffset(glyphOffsetArray, symbol) ==
    glyphOffsetArray[symbol.glyphStartIndex + symbol.numGlyphs - 1]

\* placeFirstAndLastGlyph(fontScale, glyphOffsetArray, lineOffsetX, lineOffsetY,
\*   flip, symbol, rotateToLine, projectionArgs); kind "null" is the null return.
placeFirstAndLastGlyph(fontScale, glyphOffsetArray, lineOffsetX, lineOffsetY, flip, symbol, rotateToLine, pa, cache) ==
    LET lineStartIndex == symbol.lineStartIndex
        lineEndIndex == symbol.lineStartIndex + symbol.lineLength
    IN
    Eval(placeGlyphAlongLine(fontScale * firstGlyphOffset(glyphOffsetArray, symbol), lineOffsetX, lineOffsetY, flip,
             symbol.segment, lineStartIndex, lineEndIndex, pa, cache, rotateToLine),
         LAMBDA firstPlacedGlyph :
            IF firstPlacedGlyph.kind # "placed"
            THEN [kind |-> firstPlacedGlyph.kind, first |-> firstPlacedGlyph,
                  last |-> firstPlacedGlyph, cache |-> firstPlacedGlyph.cache]
            ELSE
            Eval(placeGlyphAlongLine(fontScale * lastGlyphOffset(glyphOffsetArray, symbol), lineOffsetX,
                     lineOffsetY, flip, symbol.segment, lineStartIndex, lineEndIndex, pa,
                     firstPlacedGlyph.cache, rotateToLine),
                 LAMBDA lastPlacedGlyph :
                    [kind |-> lastPlacedGlyph.kind, first |-> firstPlacedGlyph,
                     last |-> lastPlacedGlyph, cache |-> lastPlacedGlyph.cache]))

\* The loop over the interior glyphs (projection.ts:373-377); acc.glyphs
\* collects the results, a null among them included.  g = the common arguments.
RECURSIVE interiorGlyphs(_, _, _)
interiorGlyphs(glyphIndex, acc, g) ==
    IF ~(glyphIndex < g.glyphEndIndex - 1)
    THEN [kind |-> "ok", glyphs |-> acc.glyphs, cache |-> acc.cache]
    ELSE
    Eval(placeGlyphAlongLine(g.fontScale * g.glyphOffsetArray[glyphIndex], g.lineOffsetX,
             g.lineOffsetY, g.flip, g.symbol.segment, g.symbol.lineStartIndex,
             g.symbol.lineStartIndex + g.symbol.lineLength, g.pa, acc.cache,
             g.rotateToLine),
         LAMBDA glyph :
            IF glyph.kind \in {"throw", "inexact"}
            THEN [kind |-> glyph.kind, glyphs |-> acc.glyphs, cache |-> glyph.cache]
            ELSE Eval([glyphs |-> Append(acc.glyphs, glyph), cache |-> glyph.cache],
                      LAMBDA acc2 : interiorGlyphs(glyphIndex + 1, acc2, g)))

\* for (const glyph of placedGlyphs) addDynamicAttributes(..., glyph.point, glyph.angle):
\* reading .point of a null entry is a TypeError, after the glyphs before it
\* have been written.
RECURSIVE writeGlyphs(_, _, _, _)
writeGlyphs(glyphs, i, array, s) ==
    IF i > Len(glyphs) THEN [kind |-> "ok", array |-> array]
    ELSE IF glyphs[i].kind # "placed" THEN [kind |-> "throw", array |-> array]
    ELSE Eval(addDynamicAttributes(array, glyphs[i].point, glyphs[i].angle, s),
              LAMBDA array2 : writeGlyphs(glyphs, i + 1, array2, s))

\* projectTruncatedLineSegment(previousTilePoint, currentTilePoint,
\*   previousProjectedPoint, minimumLength, projectionMatrix): in clip space.
\* The unit segment is axis-aligned, so scaling it to minimumLength moves the
\* stored point by minimumLength * HalfW (or HalfH).
projectTruncatedLineSegment(previousTilePoint, currentTilePoint, previousProjectedPoint, minimumLength, projectionMatrix) ==
    IF ~AxisNZ(PSub(previousTilePoint, currentTilePoint))
    THEN [kind |-> "inexact", point |-> Pt(0, 0)]
    ELSE
    Eval(project(PAdd(previousTilePoint, PUnit(PSub(previousTilePoint, currentTilePoint))),
                 projectionMatrix),
         LAMBDA pu :
            Eval(PSub(previousProjectedPoint, pu.point), LAMBDA projectedUnitSegment :
                IF ~pu.exact \/ ~AxisNZ(projectedUnitSegment)
                THEN [kind |-> "inexact", point |-> Pt(0, 0)]
                ELSE [kind |-> "ok",
                      point |-> PAdd(previousProjectedPoint,
                                Pt(Sign(projectedUnitSegment.x) * minimumLength * HalfW,
                                   Sign(projectedUnitSegment.y) * minimumLength * HalfH))]))

\* A return value of placeGlyphsAlongLine.  tag is "" for {}, else the name of
\* the flag set; "throw" marks an exception leaving the function.  interior
\* logs the results for the glyphs between the first and the last.
GlyphsResult(tag, array, cache, interior) ==
    [tag |-> tag, array |-> array, cache |-> cache, interior |-> interior]

\* The orientation test of the single-glyph branch (projection.ts:382-398)
singleGlyphOrientation(pa, symbol, posMatrix) ==
    Eval(project(pa.tileAnchorPoint, posMatrix), LAMBDA pr :
    Eval(Vertex(pa, symbol.lineStartIndex + symbol.segment + 1), LAMBDA tileSegmentEnd :
    Eval(project(tileSegmentEnd, posMatrix), LAMBDA projectedVertex :
    Eval(IF projectedVertex.signedDistanceFromCamera > 0
         THEN [kind |-> IF projectedVertex.exact THEN "ok" ELSE "inexact",
               point |-> projectedVertex.point]
         ELSE projectTruncatedLineSegment(pa.tileAnchorPoint, tileSegmentEnd, pr.point, 1,
                                          posMatrix),
         LAMBDA b :
            IF ~pr.exact \/ b.kind # "ok" THEN "inexact"
            ELSE requiresOrientationChange(symbol.writingMode, pr.point, b.point)))))

\* The multi-glyph branch after the first and the last glyph have been placed
\* (projection.ts:362-378, 407-409)
placeInteriorGlyphs(g, fl, keepUpright, glCoordMatrix, array, s) ==
    Eval(IF keepUpright /\ ~g.flip
         THEN requiresOrientationChange(g.symbol.writingMode,
                                        project(fl.first.point, glCoordMatrix).point,
                                        project(fl.last.point, glCoordMatrix).point)
         ELSE "none",
         LAMBDA orientationChange :
            IF orientationChange # "none"
            THEN GlyphsResult(orientationChange, array, fl.cache, <<>>)
            ELSE
            Eval(interiorGlyphs(g.symbol.glyphStartIndex + 1,
                                [glyphs |-> <<>>, cache |-> fl.cache], g),
                 LAMBDA mid :
                    IF mid.kind # "ok" THEN GlyphsResult(mid.kind, array, mid.cache, <<>>)
                    ELSE
                    Eval(writeGlyphs(<<fl.first>> \o mid.glyphs \o <<fl.last>>, 1, array, s),
                         LAMBDA w :
                            GlyphsResult(IF w.kind = "ok" THEN "" ELSE "throw", w.array,
                                mid.cache,
                                <<[first |-> fl.first, last |-> fl.last,
                                   kinds |-> [i \in 1..Len(mid.glyphs) |->
                                                 mid.glyphs[i].kind]]>>))))

\* placeGlyphsAlongLine(projectionArgs, symbol, fontSize, flip, keepUpright,
\*   posMatrix, glCoordMatrix, glyphOffsetArray, dynamicLayoutVertexArray,
\*   aspectRatio, rotateToLine); fontScale = fontSize / 24; s is the symbol's
\*   position in placedSymbolArray (bookkeeping).
placeGlyphsAlongLine(pa, cache, symbol, fontScale, flip, keepUpright, posMatrix, glCoordMatrix, glyphOffsetArray, array, rotateToLine, s) ==
    Eval([fontScale |-> fontScale, glyphOffsetArray |-> glyphOffsetArray,
          lineOffsetX |-> symbol.lineOffsetX * fontScale,
          lineOffsetY |-> symbol.lineOffsetY * fontScale,
          flip |-> flip, symbol |-> symbol, pa |-> pa, rotateToLine |-> rotateToLine,
          glyphEndIndex |-> symbol.glyphStartIndex + symbol.numGlyphs],
         LAMBDA g :
    IF symbol.numGlyphs > 1
    THEN
        \* Place the first and the last glyph in the label first
        Eval(placeFirstAndLastGlyph(fontScale, glyphOffsetArray, g.lineOffsetX,
                 g.lineOffsetY, flip, symbol, rotateToLine, pa, cache),
             LAMBDA fl :
                IF fl.kind \in {"throw", "inexact"}
                THEN GlyphsResult(fl.kind, array, fl.cache, <<>>)
                ELSE IF fl.kind = "null"
                THEN GlyphsResult("notEnoughRoom", array, fl.cache, <<>>)
                ELSE placeInteriorGlyphs(g, fl, keepUpright, glCoordMatrix, array, s))
    ELSE
        \* Only a single glyph to place
        Eval(IF keepUpright /\ ~flip THEN singleGlyphOrientation(pa, symbol, posMatrix)
             ELSE "none",
             LAMBDA orientationChange :
                IF orientationChange # "none"
                THEN GlyphsResult(orientationChange, array, cache, <<>>)
                ELSE
                Eval(placeGlyphAlongLine(
                         fontScale * glyphOffsetArray[symbol.glyphStartIndex],
                         g.lineOffsetX, g.lineOffsetY, flip, symbol.segment,
                         symbol.lineStartIndex, symbol.lineStartIndex + symbol.lineLength,
                         pa, cache, rotateToLine),
                     LAMBDA singleGlyph :
                        IF singleGlyph.kind \in {"throw", "inexact"}
                        THEN GlyphsResult(singleGlyph.kind, array, singleGlyph.cache, <<>>)
                        ELSE IF singleGlyph.kind = "null"
                        THEN GlyphsResult("notEnoughRoom", array, singleGlyph.cache, <<>>)
                        ELSE GlyphsResult("",
                                 addDynamicAttributes(array, singleGlyph.point,
                                                      singleGlyph.angle, s),
                                 singleGlyph.cache, <<>>))))

\* One entry of the per-symbol log kept beside the stream: the outcome, the
\* stream length before and after the symbol, and the interior-glyph results of
\* the placeGlyphsAlongLine attempt that reached them.
Outcome(s, symbol, tag, before, after, interior) ==
    [s |-> s, numGlyphs |-> symbol.numGlyphs, tag |-> tag, before |-> before,
     after |-> after, interior |-> interior]

\* The state of updateLineLabels' loop after symbol s has been handled.
\* kind "throw" = an exception left updateLineLabels.
LoopState(acc, s, symbol, array, useVertical, tag, interior, kind) ==
    [array |-> array, useVertical |-> useVertical,
     log |-> Append(acc.log, Outcome(s, symbol, tag, Len(acc.array), Len(array), interior)),
     kind |-> kind]

\* The second attempt, flipped (projection.ts:256-260)
placeFlippedStep(s, acc, symbol, pa, u, bucket, posMatrix, keepUpright, rotateToLine) ==
    Eval(placeGlyphsAlongLine(pa, u.cache, symbol, symbol.fontScale, TRUE, keepUpright,
             posMatrix, getGlCoordMatrix, bucket.glyphOffsetArray, u.array,
             rotateToLine, s),
         LAMBDA placeFlipped :
            IF placeFlipped.tag \in {"throw", "inexact"}
            THEN LoopState(acc, s, symbol, placeFlipped.array, FALSE, placeFlipped.tag,
                           placeFlipped.interior, placeFlipped.tag)
            ELSE IF placeFlipped.tag = "notEnoughRoom"
            THEN LoopState(acc, s, symbol,
                           hideGlyphs(symbol.numGlyphs, placeFlipped.array, s), FALSE,
                           "flippedNoRoom", placeFlipped.interior, "ok")
            ELSE LoopState(acc, s, symbol, placeFlipped.array, FALSE, "flipped",
                           placeFlipped.interior, "ok"))

\* The body of updateLineLabels' loop for a symbol that is placed
\* (projection.ts:228-260)
placeSymbolStep(s, acc, symbol, bucket, posMatrix, special, keepUpright, rotateToLine) ==
    Eval([special |-> special, pitchWithMap |-> FALSE,
          labelPlaneMatrix |-> getLabelPlaneMatrix(posMatrix),
          globeMatrix |-> posMatrix,
          lineVertexArray |-> bucket.lineVertexArray,
          tileAnchorPoint |-> Pt(symbol.anchorX, symbol.anchorY)],
         LAMBDA pa :
    Eval(placeGlyphsAlongLine(pa, EmptyCache, symbol, symbol.fontScale, FALSE, keepUpright,
             posMatrix, getGlCoordMatrix, bucket.glyphOffsetArray, acc.array,
             rotateToLine, s),
         LAMBDA placeUnflipped :
            IF placeUnflipped.tag \in {"throw", "inexact"}
            THEN LoopState(acc, s, symbol, placeUnflipped.array, FALSE, placeUnflipped.tag,
                           placeUnflipped.interior, placeUnflipped.tag)
            ELSE IF placeUnflipped.tag = "notEnoughRoom" \/ placeUnflipped.tag = "useVertical"
            THEN LoopState(acc, s, symbol,
                           hideGlyphs(symbol.numGlyphs, placeUnflipped.array, s),
                           placeUnflipped.tag = "useVertical", placeUnflipped.tag,
                           placeUnflipped.interior, "ok")
            ELSE IF placeUnflipped.tag = "needsFlipping"
            THEN placeFlippedStep(s, acc, symbol, pa, placeUnflipped, bucket, posMatrix,
                                  keepUpright, rotateToLine)
            ELSE LoopState(acc, s, symbol, placeUnflipped.array, FALSE, "placed",
                           placeUnflipped.interior, "ok")))

\* The body of updateLineLabels' loop for symbol s (projection.ts:208-260)
symbolStep(s, acc, symbol, bucket, posMatrix, special, keepUpright, rotateToLine) ==
    IF symbol.hidden \/ (symbol.writingMode = Vertical /\ ~acc.useVertical)
    THEN LoopState(acc, s, symbol, hideGlyphs(symbol.numGlyphs, acc.array, s),
                   acc.useVertical, "skipped", <<>>, "ok")
    ELSE
    Eval(project(Pt(symbol.anchorX, symbol.anchorY), posMatrix), LAMBDA anchorPos :
        IF ~anchorPos.exact
        THEN LoopState(acc, s, symbol, acc.array, FALSE, "inexact", <<>>, "inexact")
        ELSE IF ~isVisible(anchorPos.point)
        THEN \* Don't bother calculating the correct point for invisible labels.
             LoopState(acc, s, symbol, hideGlyphs(symbol.numGlyphs, acc.array, s), FALSE,
                       "invisible", <<>>, "ok")
        ELSE placeSymbolStep(s, acc, symbol, bucket, posMatrix, special, keepUpright,
                             rotateToLine))

\* for (let s = 0; s < placedSymbols.length; s++)
RECURSIVE symbolLoop(_, _, _, _, _, _, _)
symbolLoop(s, acc, bucket, posMatrix, special, keepUpright, rotateToLine) ==
    IF s > Len(bucket.placedSymbols) \/ acc.kind # "ok" THEN acc
    ELSE Eval(symbolStep(s, acc, bucket.placedSymbols[s], bucket, posMatrix, special,
                         keepUpright, rotateToLine),
              LAMBDA acc2 : symbolLoop(s + 1, acc2, bucket, posMatrix, special,
                                       keepUpright, rotateToLine))

\* updateLineLabels(bucket, posMatrix, painter, isText, labelPlaneMatrix,
\*   glCoordMatrix, pitchWithMap = false, keepUpright, rotateToLine,
\*   projectionManager, ...): dynamicLayoutVertexArray.clear(), then the loop.
updateLineLabels(bucket, posMatrix, special, keepUpright, rotateToLine) ==
    symbolLoop(1, [array |-> <<>>, useVertical |-> FALSE, log |-> <<>>, kind |-> "ok"],
               bucket, posMatrix, special, keepUpright, rotateToLine)

----------------------------------------------------------------------------
(* Inputs of label placement                                               *)

MaxOff == 9          \* glyph offsets offsetX range over -MaxOff..MaxOff
MaxGlyphs == 4       \* glyphs per symbol

\* posMatrix of the cameras.  CamTop looks straight down (scale 2 px per tile
\* unit), CamFar is CamTop panned so that the tile is outside the padded
\* viewport, CamTilt is a perspective camera with w = 5 - 2x: tile points with
\* x >= 3 are behind the plane of the camera.
CamTop == Mat(2, 0, 0, 0, -2, 0, 0, 0, 1)
CamFar == Mat(2, 0, 0, 0, -2, 0, 300, 0, 1)
CamTilt == Mat(0, 0, -2, 0, -15, 0, 15, 0, 5)
Cameras == {CamTop, CamFar, CamTilt}

\* Line geometries in tile units (axis-aligned polylines).
LineBend == <<Pt(0, 0), Pt(2, 0), Pt(2, 2)>>
LineStraight == <<Pt(0, 0), Pt(1, 0), Pt(2, 0), Pt(3, 0)>>
LineBack == <<Pt(3, 0), Pt(2, 0), Pt(1, 0), Pt(0, 0)>>
LineZig == <<Pt(0, 0), Pt(1, 0), Pt(1, 1), Pt(2, 1)>>
Lines == {LineBend, LineStraight, LineBack, LineZig}

\* bucket.lineVertexArray: the line's vertices between one vertex of the line
\* stored before it and one of the line stored after it.
LineVertexArrayOf(line) ==
    LET all == <<PAdd(line[1], Pt(0, -1))>> \o line \o <<PAdd(line[Len(line)], Pt(0, 1))>>
    IN [i \in 0..(Len(all) - 1) |-> all[i + 1]]

Scenes ==
    {[lineVertexArray |-> LineVertexArrayOf(line), lineStartIndex |-> 1,
      lineLength |-> Len(line), posMatrix |-> cam, special |-> special] :
        line \in Lines, cam \in Cameras, special \in BOOLEAN}

\* Anchors of a scene: the integer tile points of each segment of the line.
Between(a, p, b) ==
    /\ Min(a.x, b.x) <= p.x /\ p.x <= Max(a.x, b.x)
    /\ Min(a.y, b.y) <= p.y /\ p.y <= Max(a.y, b.y)
MaxCoord == 3
Anchors(sc) ==
    {a \in [segment : 0..(sc.lineLength - 2),
            point : {Pt(x, y) : x \in 0..MaxCoord, y \in 0..MaxCoord}] :
        /\ Between(sc.lineVertexArray[sc.lineStartIndex + a.segment], a.point,
                   sc.lineVertexArray[sc.lineStartIndex + a.segment + 1])
        /\ project(a.point, sc.posMatrix).signedDistanceFromCamera > 0
        /\ project(a.point, sc.posMatrix).exact}

\* projectionArgs of a placement in scene sc with the given anchor
ProjectionArgsOf(sc, anchor) ==
    [special |-> sc.special, pitchWithMap |-> FALSE,
     labelPlaneMatrix |-> getLabelPlaneMatrix(sc.posMatrix),
     globeMatrix |-> sc.posMatrix,
     lineVertexArray |-> sc.lineVertexArray,
     tileAnchorPoint |-> anchor]

NoCall == [op |-> "none"]

\* Label placement at rest, before any call.
\* No label scene: the other parts of the engine do not read it.
NoScene == [lineVertexArray |-> <<>>]

IdleLabel ==
    /\ lpc = "idle"
    /\ call = NoCall
    /\ placed = NoGlyph("none", EmptyCache)
    /\ stream = <<>>
    /\ outcomes = <<>>
    /\ again = NoGlyph("none", EmptyCache)

\* One call of placeGlyphAlongLine with a fresh projection cache.
PlaceGlyphAlongLine ==
    /\ lpc = "idle"
    /\ \E a \in Anchors(scene), offsetX \in (-MaxOff)..MaxOff, lineOffsetX \in {0, 1},
          lineOffsetY \in {-1, 0, 1}, flip \in BOOLEAN, rotateToLine \in {TRUE} :
        \E pa \in {ProjectionArgsOf(scene, a.point)} :
        \E r \in {placeGlyphAlongLine(offsetX, lineOffsetX, lineOffsetY, flip, a.segment,
                     scene.lineStartIndex, scene.lineStartIndex + scene.lineLength,
                     pa, EmptyCache, rotateToLine)} :
        /\ r.kind # "inexact"
        /\ call' = [op |-> "placeGlyphAlongLine", offsetX |-> offsetX,
                    lineOffsetX |-> lineOffsetX, lineOffsetY |-> lineOffsetY,
                    flip |-> flip, rotateToLine |-> rotateToLine,
                    anchorSegment |-> a.segment, tileAnchorPoint |-> a.point]
        /\ placed' = r
        /\ lpc' = IF r.kind = "throw" THEN "threw" ELSE "placed"
    /\ UNCHANGED <<scene, stream, outcomes, again>>
    /\ UNCHANGED coverVars
    /\ UNCHANGED projVars
    /\ UNCHANGED moreVars

\* bucket.glyphOffsetArray: per symbol a run of MaxGlyphs increasing offsets,
\* first offset start, two units apart.
RunStarts == {-4, 1}
GlyphRun(start) == [i \in 1..MaxGlyphs |-> start + 2 * (i - 1)]
GlyphOffsetArrayOf(start) ==
    LET all == GlyphRun(start) \o GlyphRun(start)
    IN [i \in 0..(Len(all) - 1) |-> all[i + 1]]

\* (writingMode, hidden) of the two symbols of a bucket: a horizontal symbol
\* followed by its vertical alternative, and other neighbours.
SymbolModes ==
    {<<Horizontal, FALSE, Vertical, FALSE>>, <<Horizontal, FALSE, Horizontal, FALSE>>,
     <<Horizontal, TRUE, Vertical, FALSE>>, <<Vertical, FALSE, Horizontal, FALSE>>,
     <<Horizontal, FALSE, Vertical, TRUE>>, <<Horizontal, FALSE, Horizontal, TRUE>>}

PlacedSymbol(sc, a, k, numGlyphs, writingMode, hidden, lineOffsetY, fontScale) ==
    [anchorX |-> a.point.x, anchorY |-> a.point.y, segment |-> a.segment,
     lineStartIndex |-> sc.lineStartIndex, lineLength |-> sc.lineLength,
     numGlyphs |-> numGlyphs, glyphStartIndex |-> (k - 1) * MaxGlyphs,
     writingMode |-> writingMode, hidden |-> hidden,
     lineOffsetX |-> 0, lineOffsetY |-> lineOffsetY, fontScale |-> fontScale]

\* updateLineLabels on a bucket of two symbols; the whole handler.
UpdateLineLabels ==
    /\ lpc = "idle"
    /\ \E a \in Anchors(scene), start \in RunStarts, numGlyphs \in {1, 3, MaxGlyphs},
          modes \in SymbolModes, lineOffsetY \in {0, 1}, fontScale \in {1, 2},
          keepUpright \in BOOLEAN :
        \E bucket \in {[lineVertexArray |-> scene.lineVertexArray,
                         glyphOffsetArray |-> GlyphOffsetArrayOf(start),
                         placedSymbols |->
                             <<PlacedSymbol(scene, a, 1, numGlyphs, modes[1], modes[2],
                                            lineOffsetY, fontScale),
                               PlacedSymbol(scene, a, 2, numGlyphs, modes[3], modes[4],
                                            lineOffsetY, fontScale)>>]} :
        \E r \in {updateLineLabels(bucket, scene.posMatrix, scene.special, keepUpright,
                                   TRUE)} :
        /\ r.kind # "inexact"
        /\ call' = [op |-> "updateLineLabels", bucket |-> bucket,
                    keepUpright |-> keepUpright]
        /\ stream' = r.array
        /\ outcomes' = r.log
        /\ lpc' = IF r.kind = "throw" THEN "updateThrew" ELSE "updated"
    /\ UNCHANGED <<scene, placed, again>>
    /\ UNCHANGED coverVars
    /\ UNCHANGED projVars
    /\ UNCHANGED moreVars

\* The coverage query and the projection manager at rest.
IdleCover ==
    /\ cov = [op |-> "none"]
    /\ result = <<>>
    /\ cpc = "idle"
    /\ returned = <<>>
\* The projection manager is not part of a label or coverage query.
IdleProj == pm = [asked |-> FALSE]

NextLabel == PlaceGlyphAlongLine \/ UpdateLineLabels

\* Label placement: any scene, then one placement call or one updateLineLabels.
InitLabel == scene \in Scenes /\ IdleLabel /\ IdleCover /\ IdleProj /\ IdleMore
SpecLabel == InitLabel /\ [][NextLabel]_vars

----------------------------------------------------------------------------
(* Tile coverage (part_005 coveringTiles, globe_covering_tiles.ts)         *)
(*                                                                         *)
(* A world coordinate (MercatorCoordinate, 0..1) is kept as its numerator  *)
(* over Unit; a position in tiles of zoom z is kept multiplied by Unit.   *)
(* The code's depth-first loop over an explicit stack is written as the   *)
(* recursion over the quadtree that visits the nodes in the loop's order: *)
(* the children are pushed 0,1,2,3 and therefore popped 3,2,1,0.           *)

\* An absent option (minzoom?: number, maxzoom?: number)
Undefined == -1

RECURSIVE Pow2(_)
Pow2(n) == IF n <= 0 THEN 1 ELSE 2 * Pow2(n - 1)

MaxZ == 3
Unit == 2 * Pow2(MaxZ)

\* transform.coveringZoomLevel(options): an integer zoom, not below 0
coveringZoomLevel(camera) == Max(0, camera.zoom)

\* (clampedZoomUnclamped: a variant without the clamp, which C7 is checked
\* against)
clampedZoomUnclamped(z, options) == z
\* if (options.maxzoom !== undefined && z > options.maxzoom) z = options.maxzoom
clampedZoom(z, options) ==
    IF options.maxzoom # Undefined /\ z > options.maxzoom THEN options.maxzoom ELSE z

\* const overscaledZ = options.reparseOverscaled ? actualZ : z
overscaledZ(actualZ, z, options) == IF options.reparseOverscaled THEN actualZ ELSE z

\* new OverscaledTileID(overscaledZ, wrap, z, x, y)
OverscaledTileID(oz, wrap, z, x, y) ==
    [overscaledZ |-> oz, wrap |-> wrap, z |-> z, x |-> x, y |-> y]

\* (childXLeft: a variant that gives both columns the left child's x, which C8
\* is checked against)
childXLeft(x, i) == 2 * x
\* (x << 1) + (i % 2), (y << 1) + (i >> 1)
childX(x, i) == 2 * x + (i % 2)
childY(y, i) == 2 * y + (i \div 2)

\* Aabb of util/primitives on the ground plane: new Aabb(min, max),
\* quadrant(i), distanceX/distanceY(point), intersects(frustum) (0 = none,
\* 1 = partial, 2 = full).  The frustum is the rectangle of the ground the
\* camera sees.
Aabb(minX, minY, maxX, maxY) == [min |-> Pt(minX, minY), max |-> Pt(maxX, maxY)]
AabbCenter(aabb) ==
    Pt((aabb.min.x + aabb.max.x) \div 2, (aabb.min.y + aabb.max.y) \div 2)
AabbQuadrant(aabb, i) ==
    Aabb(IF i % 2 = 0 THEN aabb.min.x ELSE AabbCenter(aabb).x,
         IF i < 2 THEN aabb.min.y ELSE AabbCenter(aabb).y,
         IF i % 2 = 0 THEN AabbCenter(aabb).x ELSE aabb.max.x,
         IF i < 2 THEN AabbCenter(aabb).y ELSE aabb.max.y)
AabbDistanceX(aabb, point) == Max(Min(aabb.max.x, point.x), aabb.min.x) - point.x
AabbDistanceY(aabb, point) == Max(Min(aabb.max.y, point.y), aabb.min.y) - point.y
AabbIntersects(aabb, frustum) ==
    IF \/ aabb.max.x <= frustum.min.x \/ aabb.min.x >= frustum.max.x
       \/ aabb.max.y <= frustum.min.y \/ aabb.min.y >= frustum.max.y
    THEN 0
    ELSE IF /\ aabb.min.x >= frustum.min.x /\ aabb.max.x <= frustum.max.x
            /\ aabb.min.y >= frustum.min.y /\ aabb.max.y <= frustum.max.y
    THEN 2
    ELSE 1

\* Frustum.fromInvProjectionMatrix(invProjMatrix, worldSize, z): what the
\* camera sees, in tiles of zoom z.
FrustumAtZoom(camera, z) ==
    Aabb(Pow2(z) * (camera.center.x - camera.viewX), Pow2(z) * (camera.center.y - camera.viewY),
         Pow2(z) * (camera.center.x + camera.viewX), Pow2(z) * (camera.center.y + camera.viewY))

\* vec2.sqrLen
sqrLen(x, y) == x * x + y * y

\* let minZoom = options.minzoom || 0; if (!options.terrain &&
\*   this.pitch <= 60.0 && this._edgeInsets.top < 0.1) minZoom = z;
lodMinZoom(camera, options, z) ==
    IF camera.pitch <= 60 /\ ~camera.topPadding THEN z
    ELSE IF options.minzoom = Undefined THEN 0 ELSE options.minzoom

radiusOfMaxLvlLodInTiles == 3

\* const distToSplit = radiusOfMaxLvlLodInTiles + (1 << (maxZoom - it.zoom)) - 2
distToSplit(maxZoom, zoom) == (radiusOfMaxLvlLodInTiles + Pow2(maxZoom - zoom) - 2) * Unit

\* newRootTile(wrap)
newRootTile(wrap, numTiles) ==
    [aabb |-> Aabb(wrap * numTiles * Unit, 0, (wrap + 1) * numTiles * Unit, numTiles * Unit),
     zoom |-> 0, x |-> 0, y |-> 0, wrap |-> wrap, fullyVisible |-> FALSE]

\* The child pushed for quadrant i (part_005:181-195, no terrain)
flatChild(it, i, fullyVisible) ==
    [aabb |-> AabbQuadrant(it.aabb, i), zoom |-> it.zoom + 1,
     x |-> childX(it.x, i), y |-> childY(it.y, i), wrap |-> it.wrap,
     fullyVisible |-> fullyVisible]

\* result.push({tileID, distanceSq, ...}) (part_005:170-176)
flatLeaf(it, env) ==
    [tileID |-> OverscaledTileID(IF it.zoom = env.maxZoom THEN env.overscaledZ ELSE it.zoom,
                                 it.wrap, it.zoom, it.x, it.y),
     distanceSq |-> sqrLen(env.centerPoint.x - Unit \div 2 - it.x * Unit,
                           env.centerPoint.y - Unit \div 2 - it.y * Unit)]

\* The mutation of flatStopsAt used against C29: the traversal stops one
\* level below the target depth.
flatStopsAtOneDeeper(it, env) ==
    \/ it.zoom = env.maxZoom + 1
    \/ /\ it.zoom <= env.maxZoom
       /\ Max(Abs(AabbDistanceX(it.aabb, env.centerPoint)),
              Abs(AabbDistanceY(it.aabb, env.centerPoint)))
             > distToSplit(env.maxZoom, it.zoom)
       /\ it.zoom >= env.minZoom

\* Have we reached the target depth or is the tile too far away to be any
\* split further? (part_005:156-169)
flatStopsAt(it, env) ==
    \/ it.zoom = env.maxZoom
    \/ /\ Max(Abs(AabbDistanceX(it.aabb, env.centerPoint)),
              Abs(AabbDistanceY(it.aabb, env.centerPoint)))
             > distToSplit(env.maxZoom, it.zoom)
       /\ it.zoom >= env.minZoom

\* The mutation of flatVisit used against C28: a node that is split is
\* emitted as well.
RECURSIVE flatVisitKeepingParents(_, _)
flatVisitKeepingParents(it, env) ==
    Eval(IF it.fullyVisible THEN 2 ELSE AabbIntersects(it.aabb, env.cameraFrustum),
         LAMBDA intersectResult :
            IF intersectResult = 0 THEN <<>>
            ELSE IF flatStopsAt(it, env) THEN <<flatLeaf(it, env)>>
            ELSE <<flatLeaf(it, env)>>
                 \o flatVisitKeepingParents(flatChild(it, 3, intersectResult = 2), env)
                 \o flatVisitKeepingParents(flatChild(it, 2, intersectResult = 2), env)
                 \o flatVisitKeepingParents(flatChild(it, 1, intersectResult = 2), env)
                 \o flatVisitKeepingParents(flatChild(it, 0, intersectResult = 2), env))

\* One iteration of the loop for the node it, and the iterations for the
\* nodes below it (part_005:140-197)
RECURSIVE flatVisit(_, _)
flatVisit(it, env) ==
    Eval(IF it.fullyVisible THEN 2 ELSE AabbIntersects(it.aabb, env.cameraFrustum),
         LAMBDA intersectResult :
            IF intersectResult = 0 THEN <<>>
            ELSE IF flatStopsAt(it, env) THEN <<flatLeaf(it, env)>>
            ELSE flatVisit(flatChild(it, 3, intersectResult = 2), env)
                 \o flatVisit(flatChild(it, 2, intersectResult = 2), env)
                 \o flatVisit(flatChild(it, 1, intersectResult = 2), env)
                 \o flatVisit(flatChild(it, 0, intersectResult = 2), env))

\* The roots in the order they are popped: 0 was pushed last, -1 first.
flatRoots(renderWorldCopies) ==
    IF renderWorldCopies THEN <<0, 3, -3, 2, -2, 1, -1>> ELSE <<0>>

RECURSIVE flatVisitRoots(_, _, _)
flatVisitRoots(roots, n, env) ==
    IF n > Len(roots) THEN <<>>
    ELSE flatVisit(newRootTile(roots[n], Pow2(env.maxZoom)), env)
         \o flatVisitRoots(roots, n + 1, env)

\* result.sort((a, b) => a.distanceSq - b.distanceSq): Array.prototype.sort
\* is stable, so an entry's place is the number of entries with a smaller
\* distanceSq, or with the same one and emitted before it.
sortedPlace(result_, i) ==
    1 + Cardinality({j \in 1..Len(result_) :
                        \/ result_[j].distanceSq < result_[i].distanceSq
                        \/ (result_[j].distanceSq = result_[i].distanceSq /\ j < i)})
sortByDistance(result_) ==
    Eval([i \in 1..Len(result_) |-> sortedPlace(result_, i)], LAMBDA place :
        [k \in 1..Len(result_) |-> result_[CHOOSE i \in 1..Len(result_) : place[i] = k]])

\* .map(a => a.tileID)
tileIDs(sorted) == [i \in 1..Len(sorted) |-> sorted[i].tileID]

\* What a coverage query leaves: the leaves as emitted, and the list returned.
Coverage(result_) ==
    [result |-> result_, returned |-> tileIDs(sortByDistance(result_))]

\* distanceToTileSimple(point, tile, tileSize)
distanceToTileSimple(point, tile, tileSize) ==
    IF point - tile < 0 THEN -(point - tile) ELSE Max(0, point - tile - tileSize)

\* distanceToTileWrapX(pointX, pointY, tileCornerX, tileCornerY, tileSize);
\* the world has size 1, here Unit.
distanceToTileWrapX(pointX, pointY, tileCornerX, tileCornerY, tileSize) ==
    Max(IF pointX - tileCornerX < 0
        THEN Min(-(pointX - tileCornerX), Unit + (pointX - tileCornerX) - tileSize)
        ELSE IF pointX - tileCornerX > Unit
        THEN Min(Max(pointX - tileCornerX - tileSize, 0), Unit - (pointX - tileCornerX))
        ELSE 0,
        distanceToTileSimple(pointY, tileCornerY, tileSize))

\* distanceToTile(pointX, pointY, tileCornerX, tileCornerY, tileSize)
distanceToTile(pointX, pointY, tileCornerX, tileCornerY, tileSize) ==
    Min(Min(2 * Unit,
            distanceToTileWrapX(pointX, pointY, tileCornerX, tileCornerY, tileSize)),
        Min(distanceToTileWrapX(pointX, pointY, tileCornerX + Unit \div 2,
                                -tileCornerY - tileSize, tileSize),
            distanceToTileWrapX(pointX, pointY, tileCornerX + Unit \div 2,
                                Unit + Unit - tileCornerY - tileSize, tileSize)))

\* const tileSize = 1.0 / scale; const tileX = x / scale
globeTileSize(zoom) == Unit \div Pow2(zoom)

\* transform.isTileVisible(x, y, zoom) -> IntersectionResult (0 = None,
\* 1 = Partial, 2 = Full): the tiles within the camera's view radius of the
\* center, the distance measured across the antimeridian and the poles.
isTileVisible(camera, x, y, zoom) ==
    Eval(distanceToTile(camera.center.x, camera.center.y, x * globeTileSize(zoom),
                        y * globeTileSize(zoom), globeTileSize(zoom)),
         LAMBDA d : IF d >= camera.viewX THEN 0
                    ELSE IF d + 2 * globeTileSize(zoom) <= camera.viewX THEN 2
                    ELSE 1)

\* const split = Math.min(centerDist, cameraDist) * 2 <= radiusOfMaxLvlLodInTiles
globeSplit(it, camera) ==
    Min(distanceToTile(camera.center.x, camera.center.y, it.x * globeTileSize(it.zoom),
                       it.y * globeTileSize(it.zoom), globeTileSize(it.zoom)),
        distanceToTile(camera.cameraCoord.x, camera.cameraCoord.y,
                       it.x * globeTileSize(it.zoom), it.y * globeTileSize(it.zoom),
                       globeTileSize(it.zoom))) * 2
        <= radiusOfMaxLvlLodInTiles * Unit

\* The wrap of a leaf (globe_covering_tiles.ts:144-154)
globeWrap(centerX, tileX, tileSize) ==
    Eval(<<distanceToTileSimple(centerX, tileX, tileSize),
           distanceToTileSimple(centerX, tileX - Unit, tileSize),
           distanceToTileSimple(centerX, tileX + Unit, tileSize)>>,
         LAMBDA d :
            IF Min(d[1], Min(d[2], d[3])) = d[3] THEN 1
            ELSE IF Min(d[1], Min(d[2], d[3])) = d[2] THEN -1
            ELSE 0)

\* result.push({tileID, distanceSq, ...}) (globe_covering_tiles.ts:139-160):
\* dx = cameraPoint[0] - 0.5 - (x << dz),
\* distanceSq = sqrLen([centerPoint[0] - 0.5 - dx, centerPoint[1] - 0.5 - dy])
globeLeaf(it, env) ==
    [tileID |-> OverscaledTileID(IF it.zoom = env.maxZoom THEN env.overscaledZ ELSE it.zoom,
                                 globeWrap(env.camera.center.x,
                                           it.x * globeTileSize(it.zoom),
                                           globeTileSize(it.zoom)),
                                 it.zoom, it.x, it.y),
     distanceSq |->
        sqrLen(env.centerPoint.x - Unit \div 2
                 - (env.cameraPoint.x - Unit \div 2
                      - it.x * Pow2(env.maxZoom - it.zoom) * Unit),
               env.centerPoint.y - Unit \div 2
                 - (env.cameraPoint.y - Unit \div 2
                      - it.y * Pow2(env.maxZoom - it.zoom) * Unit))]

globeChild(it, i, fullyVisible) ==
    [zoom |-> it.zoom + 1, x |-> childX(it.x, i), y |-> childY(it.y, i),
     fullyVisible |-> fullyVisible]

\* One iteration of the loop for the node it, and the iterations for the
\* nodes below it (globe_covering_tiles.ts:104-170)
RECURSIVE globeVisit(_, _)
globeVisit(it, env) ==
    Eval(IF it.fullyVisible THEN 2 ELSE isTileVisible(env.camera, it.x, it.y, it.zoom),
         LAMBDA intersectResult :
            IF intersectResult = 0 THEN <<>>
            ELSE IF it.zoom = env.maxZoom \/ ~globeSplit(it, env.camera)
            THEN <<globeLeaf(it, env)>>
            ELSE globeVisit(globeChild(it, 3, intersectResult = 2), env)
                 \o globeVisit(globeChild(it, 2, intersectResult = 2), env)
                 \o globeVisit(globeChild(it, 1, intersectResult = 2), env)
                 \o globeVisit(globeChild(it, 0, intersectResult = 2), env))

\* globeCoveringTiles(transform, options) (globe_covering_tiles.ts:64-173)
globeCoveringTiles(camera, options) ==
    Eval(coveringZoomLevel(camera), LAMBDA actualZ :
        IF options.minzoom # Undefined /\ actualZ < options.minzoom THEN Coverage(<<>>)
        ELSE
        Eval(clampedZoom(actualZ, options), LAMBDA z :
            Coverage(globeVisit([zoom |-> 0, x |-> 0, y |-> 0, fullyVisible |-> FALSE],
                [maxZoom |-> z,
                 overscaledZ |-> overscaledZ(actualZ, z, options),
                 camera |-> camera,
                 cameraPoint |-> PMult(camera.cameraCoord, Pow2(z)),
                 centerPoint |-> PMult(camera.center, Pow2(z))]))))

\* MercatorTransform.coveringTiles(options) (part_005:80-200)
coveringTiles(camera, options) ==
    Eval(coveringZoomLevel(camera), LAMBDA actualZ :
        IF options.minzoom # Undefined /\ actualZ < options.minzoom THEN Coverage(<<>>)
        ELSE
        Eval(clampedZoom(actualZ, options), LAMBDA z :
            Coverage(flatVisitRoots(flatRoots(camera.renderWorldCopies), 1,
                [maxZoom |-> z,
                 minZoom |-> lodMinZoom(camera, options, z),
                 overscaledZ |-> overscaledZ(actualZ, z, options),
                 centerPoint |-> PMult(camera.center, Pow2(z)),
                 cameraFrustum |-> FrustumAtZoom(camera, z)]))))


----------------------------------------------------------------------------
(* Inputs of tile coverage                                                 *)

\* Centers of the map, as numerators over Unit.
CoverCenters == {Pt(1, 1), Pt(8, 8), Pt(5, 3), Pt(15, 8), Pt(3, 13)}
\* How far the camera sees to each side of the center, over Unit.
CoverViews == {3, 8}
\* (minzoom, maxzoom) of the options
CoverZoomRanges ==
    {<<Undefined, Undefined>>, <<0, Undefined>>, <<Undefined, 2>>, <<1, 2>>, <<2, 1>>,
     <<1, MaxZ>>}
CoverOptions ==
    {[minzoom |-> r[1], maxzoom |-> r[2], reparseOverscaled |-> ro] :
        r \in CoverZoomRanges, ro \in BOOLEAN}
CoverCamera(zoom, center, cameraCoord, view, pitch, renderWorldCopies) ==
    [zoom |-> zoom, center |-> center, cameraCoord |-> cameraCoord,
     viewX |-> view, viewY |-> view, pitch |-> pitch, topPadding |-> FALSE,
     renderWorldCopies |-> renderWorldCopies]

\* coveringTiles of the flat variant; the whole call.
CoveringTiles ==
    /\ cpc = "idle"
    /\ \E zoom \in 0..MaxZ, center \in CoverCenters, view \in CoverViews,
          pitch \in {0, 70}, renderWorldCopies \in BOOLEAN, options \in CoverOptions :
        \E camera \in {CoverCamera(zoom, center, center, view, pitch, renderWorldCopies)} :
        \E r \in {coveringTiles(camera, options)} :
        /\ cov' = [op |-> "coveringTiles", camera |-> camera, options |-> options]
        /\ result' = r.result
        /\ returned' = r.returned
        /\ cpc' = "returned"
    /\ UNCHANGED labelVars
    /\ UNCHANGED projVars
    /\ UNCHANGED moreVars

\* globeCoveringTiles; the whole call.  A pitched camera is not above the
\* center.
GlobeCoveringTiles ==
    /\ cpc = "idle"
    /\ \E zoom \in 0..MaxZ, center \in CoverCenters, view \in CoverViews,
          shift \in {0, 2}, options \in CoverOptions :
        \E camera \in {CoverCamera(zoom, center, Pt(center.x, center.y + shift), view,
                                   IF shift = 0 THEN 0 ELSE 70, FALSE)} :
        \E r \in {globeCoveringTiles(camera, options)} :
        /\ cov' = [op |-> "globeCoveringTiles", camera |-> camera, options |-> options]
        /\ result' = r.result
        /\ returned' = r.returned
        /\ cpc' = "returned"
    /\ UNCHANGED labelVars
    /\ UNCHANGED projVars
    /\ UNCHANGED moreVars

NextCover == CoveringTiles \/ GlobeCoveringTiles
InitCover == scene = NoScene /\ IdleLabel /\ IdleCover /\ IdleProj /\ IdleMore
SpecCover == InitCover /\ [][NextCover]_vars

----------------------------------------------------------------------------
(* Projection manager: transitions and the error-correction loop           *)
(* (render/projection_manager.ts)                                          *)
(*                                                                         *)
(* Time is counted in tenths of a second: browser.now() / 100, and the     *)
(* durations given in seconds are multiplied by ten.  Fractions (the       *)
(* transition parameters, globeness, the usable correction) are exact      *)
(* rationals [n, d] in lowest terms.  The matrices updateProjection        *)
(* derives from the camera are not part of this state.                     *)

RECURSIVE GCD(_, _)
GCD(a, b) == IF b = 0 THEN a ELSE GCD(b, a % b)

Rat(n, d) ==
    [n |-> (Sign(d) * n) \div GCD(Abs(n), Abs(d)), d |-> Abs(d) \div GCD(Abs(n), Abs(d))]
RatInt(k) == [n |-> k, d |-> 1]
RatAdd(a, b) == Rat(a.n * b.d + b.n * a.d, a.d * b.d)
RatSub(a, b) == Rat(a.n * b.d - b.n * a.d, a.d * b.d)
RatMul(a, b) == Rat(a.n * b.n, a.d * b.d)
RatLess(a, b) == a.n * b.d < b.n * a.d
RatMin(a, b) == IF RatLess(b, a) THEN b ELSE a
RatMax(a, b) == IF RatLess(a, b) THEN b ELSE a

\* The mutation of clamp used against C14: no clamping.
clampNone(a, min, max) == a
\* clamp(a, min, max), lerp(a, b, mix), smoothStep(0.0, 1.0, x)
clamp(a, min, max) == RatMin(RatMax(a, min), max)
lerp(a, b, mix) == RatAdd(RatMul(a, RatSub(RatInt(1), mix)), RatMul(b, mix))
smoothStepOf(t) == RatMul(RatMul(t, t), RatSub(RatInt(3), RatMul(RatInt(2), t)))
smoothStep(x) == smoothStepOf(clamp(x, RatInt(0), RatInt(1)))

globeTransitionTimeSeconds == 5
zoomTransitionTimeSeconds == 5
maxGlobeZoom == 12
errorTransitionTimeSeconds == 5
\* the + 0.2 of isRenderingDirty
dirtyMarginSeconds == 2
\* the -1000.0 the change times start at
longAgo == -10
\* ProjectionErrorMeasurement
ringBufferSize == 2
readbackWaitFrames == 4
measureWaitFrames == 4
neverReadBack == -1000

\* _readbackQueue = null
NoReadback == [pending |-> FALSE, frameNumberIssued |-> 0, readbackIndex |-> 0]

\* new ProjectionErrorMeasurement(painter); hasPbos: the context is WebGL 2
newProjectionErrorMeasurement(webgl2) ==
    [present |-> TRUE, hasPbos |-> webgl2, nextPboIndex |-> 0, measuredError |-> 0,
     updateCount |-> 0, lastReadbackFrame |-> neverReadBack, readbackQueue |-> NoReadback]
NoErrorMeasurement ==
    [present |-> FALSE, hasPbos |-> FALSE, nextPboIndex |-> 0, measuredError |-> 0,
     updateCount |-> 0, lastReadbackFrame |-> neverReadBack, readbackQueue |-> NoReadback]

\* get awaitingQuery(): !!this._readbackQueue
awaitingQuery(em) == em.readbackQueue.pending

\* _renderErrorTexture(painter, input, outputExpected)
renderErrorTexture(em) ==
    [em EXCEPT !.readbackQueue =
                   [pending |-> TRUE, frameNumberIssued |-> em.updateCount,
                    readbackIndex |-> IF em.hasPbos THEN em.nextPboIndex ELSE 0],
               !.nextPboIndex =
                   IF em.hasPbos THEN (em.nextPboIndex + 1) % ringBufferSize ELSE @]

\* The mutation of tryReadback used against C13: a failed wait is treated
\* like a satisfied one.
tryReadbackIgnoringFailure(em, waitResult, measured) ==
    IF em.hasPbos /\ waitResult = "TIMEOUT_EXPIRED"
    THEN em
    ELSE [em EXCEPT !.readbackQueue = NoReadback, !.measuredError = measured,
                    !.lastReadbackFrame = em.updateCount]

\* The mutation of tryReadback used against C26: a failed wait keeps the
\* read-back pending, like a fence that has not signalled yet.
tryReadbackRetryingFailure(em, waitResult, measured) ==
    IF em.hasPbos /\ waitResult \in {"WAIT_FAILED", "TIMEOUT_EXPIRED"}
    THEN em
    ELSE [em EXCEPT !.readbackQueue = NoReadback, !.measuredError = measured,
                    !.lastReadbackFrame = em.updateCount]

\* _tryReadback(painter); waitResult is what gl.clientWaitSync answers and
\* measured what the buffer then holds.
tryReadback(em, waitResult, measured) ==
    IF em.hasPbos /\ waitResult = "WAIT_FAILED"
    THEN [em EXCEPT !.readbackQueue = NoReadback, !.lastReadbackFrame = em.updateCount]
    ELSE IF em.hasPbos /\ waitResult = "TIMEOUT_EXPIRED"
    THEN em
    ELSE [em EXCEPT !.readbackQueue = NoReadback, !.measuredError = measured,
                    !.lastReadbackFrame = em.updateCount]

\* The mutation of errorLoopStep used against C12: measure again whenever
\* enough frames went by since the last read-back, pending or not.
errorLoopStepMeasuringAnyway(em, waitResult, measured) ==
    IF em.updateCount >= em.lastReadbackFrame + measureWaitFrames
    THEN renderErrorTexture(em)
    ELSE IF em.readbackQueue.pending
              /\ em.updateCount >= em.readbackQueue.frameNumberIssued + readbackWaitFrames
    THEN tryReadback(em, waitResult, measured)
    ELSE em

\* The mutation of errorLoopStep used against C25: neither wait is kept, a
\* pending read-back is tried at once and a measurement drawn whenever none
\* is pending.
errorLoopStepWithoutWaiting(em, waitResult, measured) ==
    IF em.readbackQueue.pending
    THEN tryReadback(em, waitResult, measured)
    ELSE renderErrorTexture(em)

\* The branch of updateErrorLoop taken before this._updateCount++
errorLoopStep(em, waitResult, measured) ==
    IF em.readbackQueue.pending
    THEN IF em.updateCount >= em.readbackQueue.frameNumberIssued + readbackWaitFrames
         THEN tryReadback(em, waitResult, measured)
         ELSE em
    ELSE IF em.updateCount >= em.lastReadbackFrame + measureWaitFrames
         THEN renderErrorTexture(em)
         ELSE em

\* updateErrorLoop(painter, normalizedMercatorY, expectedAngleY); the value
\* returned is measuredError of the result.
updateErrorLoop(em, waitResult, measured) ==
    [errorLoopStep(em, waitResult, measured) EXCEPT !.updateCount = @ + 1]

\* The mutation of applyMeasurement used against C24: a new value restarts
\* the transition without storing the interpolated value it starts from.
applyMeasurementFromOldStart(p, em) ==
    Eval(IF em.measuredError # p.errorMeasurementLastValue
         THEN [p EXCEPT !.errorMeasurementLastValue = em.measuredError,
                        !.errorMeasurementLastChangeTime = p.now]
         ELSE p,
         LAMBDA q :
            [q EXCEPT !.errorMeasurement = em,
                      !.errorCorrectionUsable =
                          lerp(q.errorCorrectionPreviousValue,
                               RatInt(-q.errorMeasurementLastValue),
                               smoothStep(clamp(Rat(q.now - q.errorMeasurementLastChangeTime,
                                                    errorTransitionTimeSeconds),
                                                RatInt(0), RatInt(1))))])

\* The part of updateGPUdependent after the error loop
\* (projection_manager.ts:178-189)
applyMeasurement(p, em) ==
    Eval(IF em.measuredError # p.errorMeasurementLastValue
         THEN [p EXCEPT !.errorCorrectionPreviousValue = p.errorCorrectionUsable,
                        !.errorMeasurementLastValue = em.measuredError,
                        !.errorMeasurementLastChangeTime = p.now]
         ELSE p,
         LAMBDA q :
            [q EXCEPT !.errorMeasurement = em,
                      !.errorCorrectionUsable =
                          lerp(q.errorCorrectionPreviousValue,
                               RatInt(-q.errorMeasurementLastValue),
                               smoothStep(clamp(Rat(q.now - q.errorMeasurementLastChangeTime,
                                                    errorTransitionTimeSeconds),
                                                RatInt(0), RatInt(1))))])

\* updateGPUdependent(painter)
updateGPUdependent(p, waitResult, measured) ==
    applyMeasurement(p, updateErrorLoop(IF p.errorMeasurement.present
                                        THEN p.errorMeasurement
                                        ELSE newProjectionErrorMeasurement(p.webgl2),
                                        waitResult, measured))

\* The mutation of globeAnimation used against C15: the skip flag is
\* cleared, but the transition is left where the clock puts it.
globeAnimationNotSkipping(p) ==
    Eval(IF p.globeEnabled # p.lastGlobeStateEnabled
         THEN [p EXCEPT !.lastGlobeChangeTime = p.now,
                        !.lastGlobeStateEnabled = p.globeEnabled]
         ELSE p,
         LAMBDA q :
            Eval(clamp(Rat(q.now - q.lastGlobeChangeTime, globeTransitionTimeSeconds),
                       RatInt(0), RatInt(1)),
                 LAMBDA globeTransition :
                    [q EXCEPT !.skipNextAnimation = FALSE,
                              !.globeness =
                                  IF q.globeEnabled THEN globeTransition
                                  ELSE RatSub(RatInt(1), globeTransition)]))

\* The globe transition of _updateAnimation (projection_manager.ts:353-368);
\* globeness is the value before the zoom bound and the smoothing.
globeAnimation(p) ==
    Eval(IF p.globeEnabled # p.lastGlobeStateEnabled
         THEN [p EXCEPT !.lastGlobeChangeTime = p.now,
                        !.lastGlobeStateEnabled = p.globeEnabled]
         ELSE p,
         LAMBDA q :
            IF q.skipNextAnimation
            THEN [q EXCEPT !.globeness = IF q.globeEnabled THEN RatInt(1) ELSE RatInt(0),
                           !.lastGlobeChangeTime = q.now - globeTransitionTimeSeconds * 2,
                           !.skipNextAnimation = FALSE]
            ELSE Eval(clamp(Rat(q.now - q.lastGlobeChangeTime, globeTransitionTimeSeconds),
                            RatInt(0), RatInt(1)),
                      LAMBDA globeTransition :
                         [q EXCEPT !.globeness =
                              IF q.globeEnabled THEN globeTransition
                              ELSE RatSub(RatInt(1), globeTransition)]))

\* The zoom transition of _updateAnimation (projection_manager.ts:370-379)
zoomAnimation(p) ==
    Eval(IF (p.zoom >= maxGlobeZoom) # p.lastLargeZoomState
         THEN [p EXCEPT !.lastLargeZoomState = (p.zoom >= maxGlobeZoom),
                        !.lastLargeZoomStateChange = p.now]
         ELSE p,
         LAMBDA q :
            Eval(clamp(Rat(q.now - q.lastLargeZoomStateChange, zoomTransitionTimeSeconds),
                       RatInt(0), RatInt(1)),
                 LAMBDA zoomTransition :
                    [q EXCEPT !.globeness =
                         smoothStep(RatMin(q.globeness,
                                           IF q.lastLargeZoomState
                                           THEN RatSub(RatInt(1), zoomTransition)
                                           ELSE zoomTransition))]))

\* _updateAnimation(transform)
updateAnimation(p) == zoomAnimation(globeAnimation(p))

\* get isRenderingDirty(): "throw" is the TypeError of reading awaitingQuery
\* of an error measurement that was never created.
isRenderingDirty(p) ==
    IF p.now - p.lastGlobeChangeTime
           < Max(globeTransitionTimeSeconds, zoomTransitionTimeSeconds) + dirtyMarginSeconds
    THEN "true"
    ELSE IF p.now - p.errorMeasurementLastChangeTime
                < errorTransitionTimeSeconds + dirtyMarginSeconds
    THEN "true"
    ELSE IF ~p.errorMeasurement.present THEN "throw"
    ELSE IF awaitingQuery(p.errorMeasurement) THEN "true" ELSE "false"

\* The manager as constructed
NewProjectionManager(webgl2) ==
    [asked |-> FALSE, now |-> 0, webgl2 |-> webgl2, globeEnabled |-> FALSE, zoom |-> 0,
     lastGlobeStateEnabled |-> FALSE, lastGlobeChangeTime |-> longAgo,
     lastLargeZoomStateChange |-> longAgo, lastLargeZoomState |-> FALSE,
     globeness |-> RatInt(0), skipNextAnimation |-> FALSE,
     errorMeasurement |-> NoErrorMeasurement,
     errorCorrectionUsable |-> RatInt(0), errorMeasurementLastValue |-> 0,
     errorCorrectionPreviousValue |-> RatInt(0), errorMeasurementLastChangeTime |-> longAgo,
     dirty |-> "none"]

MaxTime == 5
MaxFrames == 5
\* transform.zoom on both sides of maxGlobeZoom
ProjZooms == {0, maxGlobeZoom}
\* What a read-back can deliver
Measurements == {0, 1}
WaitResults == {"WAIT_FAILED", "TIMEOUT_EXPIRED", "CONDITION_SATISFIED"}

\* browser.now() advances
Tick ==
    /\ pm.now < MaxTime
    /\ pm' = [pm EXCEPT !.asked = FALSE, !.dirty = "none", !.now = @ + 1]
    /\ UNCHANGED labelVars
    /\ UNCHANGED coverVars
    /\ UNCHANGED moreVars

\* map._globeEnabled is switched
SetGlobeEnabled ==
    /\ pm' = [pm EXCEPT !.asked = FALSE, !.dirty = "none", !.globeEnabled = ~@]
    /\ UNCHANGED labelVars
    /\ UNCHANGED coverVars
    /\ UNCHANGED moreVars

\* The camera's zoom crosses maxGlobeZoom
SetZoom ==
    /\ \E z \in ProjZooms \ {pm.zoom} :
          pm' = [pm EXCEPT !.asked = FALSE, !.dirty = "none", !.zoom = z]
    /\ UNCHANGED labelVars
    /\ UNCHANGED coverVars
    /\ UNCHANGED moreVars

\* skipNextProjectionTransitionAnimation()
SkipNextProjectionTransitionAnimation ==
    /\ ~pm.skipNextAnimation
    /\ pm' = [pm EXCEPT !.asked = FALSE, !.dirty = "none", !.skipNextAnimation = TRUE]
    /\ UNCHANGED labelVars
    /\ UNCHANGED coverVars
    /\ UNCHANGED moreVars

\* updateProjection(transform), as far as the transitions go
UpdateProjection ==
    /\ pm' = [updateAnimation(pm) EXCEPT !.asked = FALSE, !.dirty = "none"]
    /\ UNCHANGED labelVars
    /\ UNCHANGED coverVars
    /\ UNCHANGED moreVars

\* updateGPUdependent(painter), once per frame
UpdateGPUdependent ==
    /\ pm.errorMeasurement.updateCount < MaxFrames
    /\ \E waitResult \in WaitResults, measured \in Measurements :
          pm' = [updateGPUdependent(pm, waitResult, measured)
                    EXCEPT !.asked = FALSE, !.dirty = "none"]
    /\ UNCHANGED labelVars
    /\ UNCHANGED coverVars
    /\ UNCHANGED moreVars

\* The host asks isRenderingDirty; asked and dirty hold the answer until the
\* next call or tick.
IsRenderingDirty ==
    /\ ~pm.asked
    /\ pm' = [pm EXCEPT !.asked = TRUE, !.dirty = isRenderingDirty(pm)]
    /\ UNCHANGED labelVars
    /\ UNCHANGED coverVars
    /\ UNCHANGED moreVars

NextProj ==
    \/ Tick \/ SetGlobeEnabled \/ SetZoom \/ SkipNextProjectionTransitionAnimation
    \/ UpdateProjection \/ UpdateGPUdependent \/ IsRenderingDirty
InitProj ==
    /\ scene = NoScene /\ IdleLabel /\ IdleCover /\ IdleMore
    /\ pm \in {NewProjectionManager(webgl2) : webgl2 \in BOOLEAN}
SpecProj == InitProj /\ [][NextProj]_vars

----------------------------------------------------------------------------
(* Properties of label placement, checked under SpecLabel                  *)

\* The label-plane position of a tile point under the scene's camera, computed
\* from the camera matrix alone.
RefLabel(sc, p) == ToViewport(project(p, sc.posMatrix).point)
InFront(sc, p) == project(p, sc.posMatrix).signedDistanceFromCamera > 0

\* The combined offset of a call and the direction it walks the line in.
CombinedOffset(c) == IF c.flip THEN c.offsetX - c.lineOffsetX ELSE c.offsetX + c.lineOffsetX
WalkDirection(c) == IF (CombinedOffset(c) > 0) # c.flip THEN 1 ELSE -1

\* The vertex indices ahead of the anchor in the walking direction, nearest first.
VerticesAhead(sc, c) ==
    LET first == sc.lineStartIndex + c.anchorSegment
                 + (IF WalkDirection(c) > 0 THEN 1 ELSE 0)
        count == IF WalkDirection(c) > 0
                 THEN sc.lineStartIndex + sc.lineLength - first
                 ELSE first - sc.lineStartIndex + 1
    IN [k \in 1..count |-> first + (k - 1) * WalkDirection(c)]

\* The projected polyline from the anchor to the end of the line.
RefPolyline(sc, c) ==
    <<RefLabel(sc, c.tileAnchorPoint)>> \o
    [k \in 1..Len(VerticesAhead(sc, c)) |->
        RefLabel(sc, sc.lineVertexArray[VerticesAhead(sc, c)[k]])]
AllAheadInFront(sc, c) ==
    \A k \in 1..Len(VerticesAhead(sc, c)) :
        InFront(sc, sc.lineVertexArray[VerticesAhead(sc, c)[k]])

RECURSIVE PolylineLength(_, _)
PolylineLength(path, n) ==
    IF n <= 1 THEN 0
    ELSE PolylineLength(path, n - 1) + PMag(PSub(path[n], path[n - 1]))

OnSegment(p, a, b) ==
    /\ Between(a, p, b)
    /\ (b.x - a.x) * (p.y - a.y) = (b.y - a.y) * (p.x - a.x)

DirectCall == lpc \in {"placed", "threw"}

\* C1: a placement on a line with zero perpendicular offset lies on the segment
\* between the last two vertices walked (the projections of the line's
\* vertices), and the projected polyline from the anchor through the walked
\* vertices to the point has length |combined offset|.
C1_PointAtOffset ==
    (DirectCall /\ placed.kind = "placed" /\ call.lineOffsetY = 0) =>
        LET ref == RefPolyline(scene, call)
            n == Len(placed.path)
            ahead == VerticesAhead(scene, call)
        IN
        /\ n >= 2 /\ n - 1 <= Len(ahead)
        /\ \A i \in 1..(n - 1) : placed.path[i] = ref[i]
        /\ placed.path[n] = placed.point
        /\ placed.last[1] = ref[n - 1]
        /\ InFront(scene, scene.lineVertexArray[ahead[n - 1]]) => placed.last[2] = ref[n]
        /\ OnSegment(placed.point, placed.last[1], placed.last[2])
        /\ PolylineLength(placed.path, n) = Abs(CombinedOffset(call))

\* C1 witness: a placement two vertices away from the anchor, with a line
\* offset added to the glyph offset.
C1_Witness ==
    /\ DirectCall /\ placed.kind = "placed" /\ call.lineOffsetY = 0
    /\ Len(placed.path) >= 3 /\ call.lineOffsetX # 0 /\ call.offsetX > 0
    /\ placed.point # placed.last[1]

\* The projected length of the line that remains between the anchor and the
\* last vertex of the line in the walking direction.
RemainingLength(sc, c) == PolylineLength(RefPolyline(sc, c), Len(RefPolyline(sc, c)))

\* C2 as stated: whatever the perpendicular offset, an offset larger than the
\* projected remaining length of the line gives null.
C2_NullBeyondProjectedLine ==
    (DirectCall /\ AllAheadInFront(scene, call)
        /\ Abs(CombinedOffset(call)) > RemainingLength(scene, call))
    => placed.kind = "null"

\* C2, amended: with zero perpendicular offset, an offset larger than the
\* projected remaining length of the line gives null, and a placement is
\* never beyond the line's last vertex in the walking direction.
C2_NullBeyondLine ==
    (DirectCall /\ call.lineOffsetY = 0 /\ AllAheadInFront(scene, call)) =>
        /\ Abs(CombinedOffset(call)) > RemainingLength(scene, call)
               => placed.kind = "null"
        /\ placed.kind \in {"null", "placed"}
        /\ placed.kind = "placed" =>
               PolylineLength(placed.path, Len(placed.path))
                   <= RemainingLength(scene, call)

\* C2 witness: a walk over two vertices that runs out of line.
C2_Witness ==
    /\ DirectCall /\ call.lineOffsetY = 0 /\ AllAheadInFront(scene, call)
    /\ placed.kind = "null"
    /\ Len(VerticesAhead(scene, call)) >= 2
    /\ Abs(CombinedOffset(call)) > RemainingLength(scene, call)

\* The scene's line is straight (all its vertices on one horizontal line).
StraightLine(sc) ==
    \A i \in sc.lineStartIndex..(sc.lineStartIndex + sc.lineLength - 1) :
        sc.lineVertexArray[i].y = sc.lineVertexArray[sc.lineStartIndex].y

\* C3 as stated: on a straight line with zero perpendicular offset, an offset
\* equal to the projected distance from the anchor to a vertex ahead gives a
\* placement at that vertex's projection, for every vertex ahead, the last one
\* included.
C3_VertexAtExactDistance ==
    (DirectCall /\ call.lineOffsetY = 0 /\ StraightLine(scene)
        /\ AllAheadInFront(scene, call)) =>
        \A k \in 1..Len(VerticesAhead(scene, call)) :
            PolylineLength(RefPolyline(scene, call), k + 1) = Abs(CombinedOffset(call))
            => /\ placed.kind = "placed"
               /\ placed.point = RefPolyline(scene, call)[k + 1]

\* C4: in every placeGlyphsAlongLine attempt that placed the first and the last
\* glyph of a label of more than one glyph (increasing offsets) and went on to
\* the interior glyphs, every interior glyph was placed: no exception from a
\* null entry.
C4_InteriorGlyphsPlaced ==
    lpc \in {"updated", "updateThrew"} =>
        \A i \in 1..Len(outcomes) :
            /\ \A j \in 1..Len(outcomes[i].interior) :
                   /\ outcomes[i].interior[j].first.kind = "placed"
                   /\ outcomes[i].interior[j].last.kind = "placed"
                   /\ Len(outcomes[i].interior[j].kinds) = outcomes[i].numGlyphs - 2
                   /\ \A k \in 1..Len(outcomes[i].interior[j].kinds) :
                          outcomes[i].interior[j].kinds[k] = "placed"
            /\ (outcomes[i].tag \in {"placed", "flipped"} /\ outcomes[i].numGlyphs > 1)
                   => Len(outcomes[i].interior) = 1

\* C4 witness: a flipped label with two interior glyphs, one of them on
\* another segment than the first glyph.
C4_Witness ==
    /\ lpc = "updated"
    /\ \E i \in 1..Len(outcomes) :
          /\ outcomes[i].tag = "flipped"
          /\ Len(outcomes[i].interior) = 1
          /\ Len(outcomes[i].interior[1].kinds) >= 2
          /\ Len(outcomes[i].interior[1].first.path) # Len(outcomes[i].interior[1].last.path)

\* The vertices of the stream written for symbol i of the log.
SymbolVertices(i) ==
    [k \in 1..(outcomes[i].after - outcomes[i].before) |-> stream[outcomes[i].before + k]]
Displayed(i) == outcomes[i].tag \in {"placed", "flipped"}

\* C5: after updateLineLabels has returned, the stream holds exactly four
\* vertices for every glyph of every symbol, in symbol order; a symbol that is
\* not displayed holds the off-screen sentinel only, a displayed one none.
C5_StreamAligned ==
    lpc = "updated" =>
        /\ Len(outcomes) = Len(call.bucket.placedSymbols)
        /\ \A i \in 1..Len(outcomes) :
              /\ outcomes[i].s = i
              /\ outcomes[i].before = IF i = 1 THEN 0 ELSE outcomes[i - 1].after
              /\ outcomes[i].after - outcomes[i].before
                     = 4 * call.bucket.placedSymbols[i].numGlyphs
              /\ \A k \in 1..Len(SymbolVertices(i)) :
                     /\ SymbolVertices(i)[k].s = i
                     /\ SymbolVertices(i)[k].hidden = ~Displayed(i)
        /\ Len(stream) = outcomes[Len(outcomes)].after

\* C5 witness: a horizontal symbol of several glyphs given up for its vertical
\* alternative (sentinel), followed by that alternative, displayed.
C5_Witness ==
    /\ lpc = "updated"
    /\ Len(outcomes) = 2
    /\ outcomes[1].tag = "useVertical"
    /\ outcomes[2].tag = "placed"
    /\ outcomes[1].numGlyphs >= 3

\* C6 as stated: placement ends with a placement, null or a tagged result,
\* never with an exception, under either projection variant.
C6_NoException ==
    /\ lpc \notin {"threw", "updateThrew"}
    /\ placed.kind # "throw"

----------------------------------------------------------------------------
(* Properties of tile coverage, checked under SpecCover                    *)

Covered == cpc = "returned"
ValidZoomRange(options) ==
    options.minzoom = Undefined \/ options.maxzoom = Undefined
        \/ options.minzoom <= options.maxzoom
ZoomInRange(tile, options) ==
    /\ options.minzoom # Undefined => options.minzoom <= tile.z
    /\ options.maxzoom # Undefined => tile.z <= options.maxzoom

\* C7 as stated: whatever the camera and the options, every tile returned by
\* either coverage function has minzoom <= z <= maxzoom.
C7_ZoomInRange ==
    Covered => \A i \in 1..Len(returned) : ZoomInRange(returned[i], cov.options)

\* C7, amended: for options whose minzoom is not above their maxzoom, every
\* tile returned by either coverage function has minzoom <= z <= maxzoom.
C7_ZoomInValidRange ==
    (Covered /\ ValidZoomRange(cov.options)) =>
        \A i \in 1..Len(returned) : ZoomInRange(returned[i], cov.options)

\* C7 witness: a query above maxzoom, which is clamped, minzoom given, that
\* returns several tiles.
C7_Witness ==
    /\ Covered /\ ValidZoomRange(cov.options)
    /\ cov.options.minzoom # Undefined /\ cov.options.maxzoom # Undefined
    /\ cov.camera.zoom > cov.options.maxzoom
    /\ Len(returned) > 1

TileKey(tile) == <<tile.overscaledZ, tile.wrap, tile.x, tile.y>>
CanonicalKey(tile) == <<tile.z, tile.wrap, tile.x, tile.y>>

\* C8: no two entries of the returned list have the same (zoom, wrap, x, y),
\* for the overscaled zoom as for the canonical one.
C8_NoDuplicateTiles ==
    Covered =>
        \A i, j \in 1..Len(returned) :
            i # j => /\ TileKey(returned[i]) # TileKey(returned[j])
                     /\ CanonicalKey(returned[i]) # CanonicalKey(returned[j])

\* C8 witness: a list holding the same x, y in two world copies and tiles of
\* two zoom levels.
C8_Witness ==
    /\ Covered
    /\ \E i, j \in 1..Len(returned) :
          /\ returned[i].wrap # returned[j].wrap
          /\ returned[i].z = returned[j].z
          /\ returned[i].x = returned[j].x /\ returned[i].y = returned[j].y
    /\ \E i, j \in 1..Len(returned) : returned[i].z < returned[j].z

\* The zoom the traversal stopped at, and the squared distance between the
\* center of a tile and the map center, in tiles of that zoom (times Unit).
CoverMaxZoom == clampedZoom(coveringZoomLevel(cov.camera), cov.options)
TileCenter(tile, maxZoom) ==
    Pt((2 * (tile.wrap * Pow2(tile.z) + tile.x) + 1) * Pow2(maxZoom - tile.z) * (Unit \div 2),
       (2 * tile.y + 1) * Pow2(maxZoom - tile.z) * (Unit \div 2))
DistanceSqToCenter(tile) ==
    sqrLen(Pow2(CoverMaxZoom) * cov.camera.center.x - TileCenter(tile, CoverMaxZoom).x,
           Pow2(CoverMaxZoom) * cov.camera.center.y - TileCenter(tile, CoverMaxZoom).y)

\* C9 as stated: the returned list is in non-decreasing order of the squared
\* distance of each tile to the map center, tiles of different zoom levels
\* included.
C9_NearestFirst ==
    Covered =>
        \A i \in 1..(Len(returned) - 1) :
            DistanceSqToCenter(returned[i]) <= DistanceSqToCenter(returned[i + 1])

----------------------------------------------------------------------------
(* Properties of the projection manager, checked under SpecProj            *)

\* A transition that has started and whose parameter is still below 1.
GlobeToggleUnfinished == pm.now - pm.lastGlobeChangeTime < globeTransitionTimeSeconds
ZoomThresholdUnfinished == pm.now - pm.lastLargeZoomStateChange < zoomTransitionTimeSeconds
ErrorCorrectionUnfinished ==
    pm.now - pm.errorMeasurementLastChangeTime < errorTransitionTimeSeconds
ReadbackPending == pm.errorMeasurement.present /\ awaitingQuery(pm.errorMeasurement)

\* C10 as stated: whenever isRenderingDirty is asked while the globe-toggle,
\* the zoom-threshold or the error-correction transition is unfinished, or a
\* read-back is pending, it answers true.
C10_DirtyWhileInFlight ==
    (pm.asked
        /\ (GlobeToggleUnfinished \/ ZoomThresholdUnfinished
              \/ ErrorCorrectionUnfinished \/ ReadbackPending))
    => pm.dirty = "true"

----------------------------------------------------------------------------
(* GlobeTransform (geo/projection/globe_transform.ts; the same code is in  *)
(* src/unnamed/part_004 as part of the projection object)                  *)
(*                                                                         *)
(* Angles are drawn from those whose sine and cosine are rational and are  *)
(* kept as that pair, so Math.sin, Math.cos and the difference of two      *)
(* angles are exact.  Lengths are in units of worldSize / (2 * PI).        *)
(* A mat4 is kept as the product it was built as: the sequence of its      *)
(* factors in the order gl-matrix multiplied them (mat4.rotateX(out, a, r) *)
(* stores a * Rx(r) in out).                                               *)

RatDiv(a, b) == Rat(a.n * b.d, a.d * b.n)
\* a + b over the least common denominator, which keeps the intermediate
\* products of the plane arithmetic within 32 bits
RatLcm(a, b) == (a.d \div GCD(a.d, b.d)) * b.d
RatSum(a, b) == Rat(a.n * (RatLcm(a, b) \div a.d) + b.n * (RatLcm(a, b) \div b.d), RatLcm(a, b))
RatNeg(a) == [n |-> -a.n, d |-> a.d]

Ang(s, c) == [s |-> s, c |-> c]
AngNeg(a) == Ang(RatNeg(a.s), a.c)
AngSub(a, b) ==
    Ang(RatSub(RatMul(a.s, b.c), RatMul(a.c, b.s)), RatAdd(RatMul(a.c, b.c), RatMul(a.s, b.s)))
Deg0 == Ang(RatInt(0), RatInt(1))
\* atan(3/4), atan(4/3), atan(7/24)
Deg37 == Ang(Rat(3, 5), Rat(4, 5))
Deg53 == Ang(Rat(4, 5), Rat(3, 5))
Deg16 == Ang(Rat(7, 25), Rat(24, 25))
Deg90 == Ang(RatInt(1), RatInt(0))
Deg180 == Ang(RatInt(0), RatInt(-1))

\* The factors of a mat4.
matPerspective(width, height, far) == [op |-> "perspective", width |-> width, height |-> height, far |-> far]
matTranslate(z) == [op |-> "translate", z |-> z]
matRotateX(a) == [op |-> "rotateX", a |-> a]
matRotateY(a) == [op |-> "rotateY", a |-> a]
matRotateZ(a) == [op |-> "rotateZ", a |-> a]
matScale(k) == [op |-> "scale", k |-> k]

\* A factor without an inverse: mat4.perspective stores f / aspect with
\* aspect = width / height, which is 0 when height is 0; a scale by 0.
singularFactor(f) ==
    \/ f.op = "perspective" /\ f.height = 0
    \/ f.op = "scale" /\ f.k.n = 0
\* mat4.invert(out, a): null when the determinant is 0, and out is not
\* written; otherwise out holds the inverse.
matInvertible(a) == \A i \in 1..Len(a) : ~singularFactor(a[i])
matInvert(out, a) == IF matInvertible(a) THEN [inverseOf |-> a] ELSE out
matIdentity == <<>>

globeRadiusPixels(t) == RatDiv(t.worldRadius, t.lat.c)

\* updateProjection, lines 133-139: the part of the globe matrix before the
\* rotation that centres the sphere on the viewed coordinates.
globeMatrixHead(t) ==
    <<matPerspective(t.width, t.height, RatAdd(t.cameraToCenterDistance, RatMul(RatInt(2), globeRadiusPixels(t)))),
      matTranslate(RatNeg(t.cameraToCenterDistance)),
      matRotateX(AngNeg(t.pitch)),
      matRotateZ(AngNeg(t.angle)),
      matTranslate(RatNeg(globeRadiusPixels(t)))>>

\* The two Float64Array objects updateProjection allocates, after line 145:
\* the rotations without the correction went into globeMatrixUncorrected.
globeHeapUncorrected(t) ==
    [globeMatrix |-> globeMatrixHead(t),
     globeMatrixUncorrected |->
         globeMatrixHead(t) \o <<matRotateX(t.lat), matRotateY(AngNeg(t.lng)), matScale(globeRadiusPixels(t))>>]

\* ... and after lines 148-150, which rotate and scale globeMatrix in place.
correctedRotation(t) == matRotateX(AngSub(t.lat, t.latitudeErrorCorrectionRadians))
uncorrectedRotation(t) == matRotateX(t.lat)
globeHeapCorrected(t) ==
    [globeHeapUncorrected(t) EXCEPT
        !.globeMatrix = @ \o <<correctedRotation(t), matRotateY(AngNeg(t.lng)), matScale(globeRadiusPixels(t))>>]

\* Lines 146-153.  A field holds a reference to one of the two objects; line
\* 146 stores the reference to globeMatrix, the object lines 148-150 then
\* write to, and line 153 inverts globeMatrix.
updateGlobeMatrices(t) ==
    [t EXCEPT !.heap = globeHeapCorrected(t),
              !.globeProjMatrixNoCorrection = "globeMatrix",
              !.globeProjMatrix = "globeMatrix",
              !.globeProjMatrixNoCorrectionInverted =
                  matInvert(t.globeProjMatrixNoCorrectionInverted, globeHeapCorrected(t).globeMatrix)]

\* The matrix a field refers to.
matrixOf(t, ref) == t.heap[ref]
\* projectTileCoordinates transforms by _globeProjMatrixNoCorrection;
\* getProjectionData hands _globeProjMatrix to the shaders.
projectTileCoordinatesMatrix(t) == matrixOf(t, t.globeProjMatrixNoCorrection)
getProjectionDataMatrix(t) == matrixOf(t, t.globeProjMatrix)

\* setGlobeViewAllowed(allow, animateTransition)
setGlobeViewAllowed(t, allow, animateTransition) ==
    [t EXCEPT !.skipNextAnimation = IF ~animateTransition /\ allow # t.globeProjectionOverride THEN TRUE ELSE @,
              !.globeProjectionOverride = allow]

\* util.easeCubicInOut: 0 at and below 0, 1 at and above 1, and in between
\* 4 * t^3 below one half and 4 * (3 * (t - t^2) + t^3 - 0.75) from there.
easeCubicInOut(t) ==
    IF ~RatLess(RatInt(0), t) THEN RatInt(0)
    ELSE IF ~RatLess(t, RatInt(1)) THEN RatInt(1)
    ELSE IF RatLess(t, Rat(1, 2)) THEN RatMul(RatInt(4), RatMul(t, RatMul(t, t)))
    ELSE RatMul(RatInt(4),
                RatSub(RatAdd(RatMul(RatInt(3), RatSub(t, RatMul(t, t))), RatMul(t, RatMul(t, t))),
                       Rat(3, 4)))

\* _updateAnimation, lines 168-182: the globe transition.  Times are in
\* tenths of a second, as in the projection manager.
globeTransition(t) ==
    Eval(IF t.globeProjectionOverride # t.lastGlobeStateEnabled
         THEN [t EXCEPT !.lastGlobeChangeTime = t.now,
                        !.lastGlobeStateEnabled = t.globeProjectionOverride]
         ELSE t,
         LAMBDA q :
            Eval(clamp(Rat(q.now - q.lastGlobeChangeTime, globeTransitionTimeSeconds),
                       RatInt(0), RatInt(1)),
                 LAMBDA tr :
                    IF q.skipNextAnimation
                    THEN [q EXCEPT !.globeness = IF q.globeProjectionOverride THEN RatInt(1) ELSE RatInt(0),
                                   !.lastGlobeChangeTime = q.now - globeTransitionTimeSeconds * 2,
                                   !.skipNextAnimation = FALSE]
                    ELSE [q EXCEPT !.globeness = IF q.globeProjectionOverride THEN tr
                                                 ELSE RatSub(RatInt(1), tr)]))

\* _updateAnimation, lines 184-193: the zoom transition and the easing.
globeZoomTransition(t) ==
    Eval(IF (t.zoom >= maxGlobeZoom) # t.lastLargeZoomState
         THEN [t EXCEPT !.lastLargeZoomState = (t.zoom >= maxGlobeZoom),
                        !.lastLargeZoomStateChange = t.now]
         ELSE t,
         LAMBDA q :
            Eval(clamp(Rat(q.now - q.lastLargeZoomStateChange, zoomTransitionTimeSeconds),
                       RatInt(0), RatInt(1)),
                 LAMBDA zoomTransition :
                    [q EXCEPT !.globeness =
                         easeCubicInOut(RatMin(q.globeness,
                                               IF q.lastLargeZoomState
                                               THEN RatSub(RatInt(1), zoomTransition)
                                               ELSE zoomTransition))]))

globeUpdateAnimation(t) == globeZoomTransition(globeTransition(t))

\* Math.sqrt on the squares of rationals the camera family produces.
RatSqrt(a) == Rat(Sqrt(a.n), Sqrt(a.d))
RatIsSquare(a) == a.n >= 0 /\ IsSquare(a.n) /\ IsSquare(a.d)

\* gl-matrix vec3.rotateZ / rotateX / rotateY about the origin, vec3.scale
vec3rotateZ(v, a) ==
    <<RatSub(RatMul(v[1], a.c), RatMul(v[2], a.s)), RatAdd(RatMul(v[1], a.s), RatMul(v[2], a.c)), v[3]>>
\* The mutation of vec3rotateX used against C16: the rotation the other way.
vec3rotateXBack(v, a) ==
    <<v[1], RatAdd(RatMul(v[2], a.c), RatMul(v[3], a.s)), RatSub(RatMul(v[3], a.c), RatMul(v[2], a.s))>>
vec3rotateX(v, a) ==
    <<v[1], RatSub(RatMul(v[2], a.c), RatMul(v[3], a.s)), RatAdd(RatMul(v[2], a.s), RatMul(v[3], a.c))>>
vec3rotateY(v, a) ==
    <<RatAdd(RatMul(v[3], a.s), RatMul(v[1], a.c)), v[2], RatSub(RatMul(v[3], a.c), RatMul(v[1], a.s))>>
vec3scale(v, k) == <<RatMul(v[1], k), RatMul(v[2], k), RatMul(v[3], k)>>

\* _computeClippingPlane, lines 247-255: distanceCameraToA and distanceAtoC,
\* with the globe radius scaled to 1.
distanceCameraToB(t) == RatDiv(t.cameraToCenterDistance, globeRadiusPixels(t))
distanceCameraToA(t) == RatMul(t.pitch.s, distanceCameraToB(t))
distanceAtoC(t) == RatAdd(RatMul(t.pitch.c, distanceCameraToB(t)), RatInt(1))
distanceCameraToCSquared(t) ==
    RatAdd(RatMul(distanceCameraToA(t), distanceCameraToA(t)), RatMul(distanceAtoC(t), distanceAtoC(t)))

\* lines 257-280 for the two distances and their common length.
clippingPlaneFrom(t, toA, toC, length) ==
    Eval(vec3scale(vec3rotateY(vec3rotateX(vec3rotateZ(<<RatInt(0), RatDiv(RatNeg(toA), length), RatDiv(toC, length)>>,
                                                       t.angle),
                                           AngNeg(t.lat)),
                               t.lng),
                   Rat(1, 4)),
         LAMBDA planeVector :
            <<planeVector[1], planeVector[2], planeVector[3],
              RatMul(RatNeg(RatDiv(RatInt(1), length)), Rat(1, 4))>>)

computeClippingPlane(t) ==
    clippingPlaneFrom(t, distanceCameraToA(t), distanceAtoC(t), RatSqrt(distanceCameraToCSquared(t)))

\* _angularCoordinatesToVector(lngRadians, latRadians)
angularCoordinatesToVector(lng, lat) == <<RatMul(lng.s, lat.c), lat.s, RatMul(lng.c, lat.c)>>

\* dot(position on sphere, occlusion plane equation) of isOccluded
planeDot(plane, spherePos) ==
    RatSum(RatSum(RatMul(plane[1], spherePos[1]), RatMul(plane[2], spherePos[2])),
           RatSum(RatMul(plane[3], spherePos[3]), plane[4]))
sphereIsOccluded(t, spherePos) == RatLess(planeDot(t.cachedClippingPlane, spherePos), RatInt(0))

\* updateProjection, lines 155-161: the camera position is read off the
\* inverted matrix the field holds, whether or not line 153 wrote it.
cameraPositionFrom(inverted) == [transformed |-> "0,0,-1,1", by |-> inverted]

\* updateProjection(): animation, matrices, camera position, clipping plane.
\* No statement of it throws.
globeUpdateProjection(t) ==
    Eval(updateGlobeMatrices(globeUpdateAnimation(t)),
         LAMBDA q :
            [q EXCEPT !.cameraPosition = cameraPositionFrom(q.globeProjMatrixNoCorrectionInverted),
                      !.cachedClippingPlane = computeClippingPlane(q),
                      !.pc = "updated"])

\* The transform as constructed (lines 17-44) and positioned on a camera.
\* A matrix field refers to the array mat4.create() gave it ("created", the
\* identity) until updateProjection stores another reference.
newGlobeTransform(cam) ==
    [pc |-> "constructed", now |-> 0, zoom |-> 0,
     lat |-> cam.lat, lng |-> cam.lng, pitch |-> cam.pitch, angle |-> cam.angle,
     width |-> cam.width, height |-> cam.height,
     distancePerPixel |-> cam.distancePerPixel,
     cameraToCenterDistance |-> RatMul(cam.distancePerPixel, RatInt(cam.height)),
     worldRadius |-> cam.worldRadius,
     latitudeErrorCorrectionRadians |-> Deg0,
     cachedClippingPlane |-> <<RatInt(1), RatInt(0), RatInt(0), RatInt(0)>>,
     lastGlobeStateEnabled |-> TRUE, lastLargeZoomStateChange |-> longAgo,
     lastLargeZoomState |-> FALSE, skipNextAnimation |-> TRUE,
     heap |-> [globeMatrix |-> matIdentity, globeMatrixUncorrected |-> matIdentity],
     globeProjMatrix |-> "created", globeProjMatrixNoCorrection |-> "created",
     globeProjMatrixNoCorrectionInverted |-> matIdentity,
     cameraPosition |-> <<0, 0, 0>>,
     lastGlobeChangeTime |-> longAgo, globeProjectionOverride |-> TRUE,
     globeness |-> RatInt(1)]

\* Cameras: latitude, longitude, pitch and bearing with rational sine and
\* cosine, and distances for which the square root of _computeClippingPlane
\* is exact.  The viewport is ViewHeight pixels high.
ViewWidth == 8
ViewHeight == 4
GlobeLats == {Deg0, Deg37, AngNeg(Deg53)}
GlobeLngs == {Deg0, Deg90, AngNeg(Deg37)}
GlobePitches == {Deg0, Deg37, Deg53}
GlobeAngles == {Deg0, AngNeg(Deg53)}
\* distanceCameraToB for each pitch: the values that make the distance from
\* the camera to the globe centre rational (37/20 and 17/10 when pitched).
GlobeDistancesAt(pitch) ==
    IF pitch = Deg0 THEN {RatInt(1), Rat(1, 2)}
    ELSE IF pitch = Deg37 THEN {Rat(19, 20)}
    ELSE {Rat(9, 10)}
GlobeCameraCandidates ==
    {[lat |-> lp[1], lng |-> lng, pitch |-> lp[2], angle |-> angle,
      width |-> ViewWidth, height |-> ViewHeight,
      distancePerPixel |-> RatDiv(RatDiv(lp[3], lp[1].c), RatInt(ViewHeight)),
      worldRadius |-> RatInt(1)] :
        lp \in {<<lat, pitch, dB>> : lat \in GlobeLats, pitch \in GlobePitches,
                                     dB \in UNION {GlobeDistancesAt(p) : p \in GlobePitches}},
        lng \in GlobeLngs, angle \in GlobeAngles}
GlobeCameras ==
    {cam \in GlobeCameraCandidates :
        /\ distanceCameraToB(newGlobeTransform(cam)) \in GlobeDistancesAt(cam.pitch)
        /\ RatIsSquare(distanceCameraToCSquared(newGlobeTransform(cam)))}
\* The correction the error measurement can have produced
GlobeCorrections == {Deg0, Deg16, AngNeg(Deg16)}
GlobeHeights == {0, ViewHeight}

\* GlobeProjection hands the transform a new latitudeErrorCorrectionRadians.
SetLatitudeErrorCorrection ==
    /\ gt.pc # "idle"
    /\ \E k \in GlobeCorrections :
          /\ k # gt.latitudeErrorCorrectionRadians
          /\ gt' = [gt EXCEPT !.latitudeErrorCorrectionRadians = k, !.pc = "moved"]
    /\ UNCHANGED <<labelVars, coverVars, projVars, meas, tf, tb>>

\* resize(width, height): _calcMatrices returns before it assigns
\* _cameraToCenterDistance when the height is 0, and otherwise sets it to
\* 0.5 / Math.tan(fov / 2) * height.
GlobeResize ==
    /\ gt.pc # "idle"
    /\ \E h \in GlobeHeights :
          /\ h # gt.height
          /\ gt' = [gt EXCEPT !.height = h,
                              !.cameraToCenterDistance =
                                  IF h = 0 THEN @ ELSE RatMul(gt.distancePerPixel, RatInt(h)),
                              !.pc = "moved"]
    /\ UNCHANGED <<labelVars, coverVars, projVars, meas, tf, tb>>

SetGlobeViewAllowed ==
    /\ gt.pc # "idle"
    /\ \E allow \in BOOLEAN, animateTransition \in BOOLEAN :
          /\ allow # gt.globeProjectionOverride
          /\ gt' = [setGlobeViewAllowed(gt, allow, animateTransition) EXCEPT !.pc = "moved"]
    /\ UNCHANGED <<labelVars, coverVars, projVars, meas, tf, tb>>

GlobeUpdateProjection ==
    /\ gt.pc # "idle"
    /\ gt' = globeUpdateProjection(gt)
    /\ UNCHANGED <<labelVars, coverVars, projVars, meas, tf, tb>>

NextGlobe ==
    \/ SetLatitudeErrorCorrection \/ GlobeResize \/ SetGlobeViewAllowed \/ GlobeUpdateProjection
InitGlobe ==
    /\ scene = NoScene /\ IdleLabel /\ IdleCover /\ IdleProj
    /\ IdleError /\ IdleConstrain /\ IdleBounds
    /\ gt \in {newGlobeTransform(cam) : cam \in GlobeCameras}
SpecGlobe == InitGlobe /\ [][NextGlobe]_vars

----------------------------------------------------------------------------
(* Properties of the globe transform, checked under SpecGlobe              *)

\* The matrix the CPU-side projection would use for a given correction
cpuMatrixFor(t, k) ==
    projectTileCoordinatesMatrix(updateGlobeMatrices([t EXCEPT !.latitudeErrorCorrectionRadians = k]))
cpuInverseFor(t, k) ==
    updateGlobeMatrices([t EXCEPT !.latitudeErrorCorrectionRadians = k]).globeProjMatrixNoCorrectionInverted

underCamera(t) ==
    vec3scale(<<t.cachedClippingPlane[1], t.cachedClippingPlane[2], t.cachedClippingPlane[3]>>, RatInt(4))
\* The point of the unit sphere the camera looks at: the map centre.
centerOnSphere(t) == angularCoordinatesToVector(t.lng, t.lat)
antipode(v) == vec3scale(v, RatInt(-1))
onUnitSphere(v) ==
    RatSum(RatMul(v[1], v[1]), RatSum(RatMul(v[2], v[2]), RatMul(v[3], v[3]))) = RatInt(1)

\* C16: after updateProjection, for every pitch, bearing, centre and camera
\* distance, the sphere point under the camera and the map centre evaluate
\* strictly positive against the cached clipping plane and are not
\* occluded, and their antipodes evaluate strictly negative and are
\* occluded.
C16_FacingPointVisible ==
    gt.pc = "updated" =>
        \A p \in {underCamera(gt), centerOnSphere(gt)} :
            /\ onUnitSphere(p)
            /\ RatLess(RatInt(0), planeDot(gt.cachedClippingPlane, p))
            /\ ~sphereIsOccluded(gt, p)
            /\ RatLess(planeDot(gt.cachedClippingPlane, antipode(p)), RatInt(0))
            /\ sphereIsOccluded(gt, antipode(p))
\* a pitched, rotated camera away from the equator and the prime meridian
C16_Witness ==
    /\ gt.pc = "updated"
    /\ gt.pitch = Deg53 /\ gt.angle = AngNeg(Deg53)
    /\ gt.lat = AngNeg(Deg53) /\ gt.lng = AngNeg(Deg37)
    /\ underCamera(gt) # centerOnSphere(gt)

----------------------------------------------------------------------------
(* ProjectionErrorMeasurement on its own (render/projection_manager.ts,   *)
(* lines 524-711): one updateErrorLoop call per frame, the GL context      *)
(* answering each fence wait with any of its three results.                *)
(* gpu lists, by the frame that issued them, the read-backs the context    *)
(* has been asked for and that were neither read nor given up.             *)

MaxErrFrames == 18

\* What one updateErrorLoop call did to the read-backs in flight: a call
\* that leaves another _readbackQueue than it found has issued one, and a
\* call that leaves null where it found one has read it or given it up.
readbacksAfter(gpu, before, after) ==
    Eval(IF before.readbackQueue.pending /\ after.readbackQueue = NoReadback
         THEN SelectSeq(gpu, LAMBDA f : f # before.readbackQueue.frameNumberIssued)
         ELSE gpu,
         LAMBDA kept :
            IF after.readbackQueue.pending /\ after.readbackQueue # before.readbackQueue
            THEN Append(kept, after.readbackQueue.frameNumberIssued)
            ELSE kept)

newMeasurementLoop(webgl2) ==
    [pc |-> "constructed", em |-> newProjectionErrorMeasurement(webgl2), gpu |-> <<>>,
     pendingBefore |-> FALSE, errorBefore |-> 0, waited |-> "none", returned |-> 0,
     waitFailed |-> FALSE]

\* The fence wait of _tryReadback is reached when a read-back is pending,
\* old enough, and the context has pixel pack buffers.
reachesFenceWait(em) ==
    /\ em.readbackQueue.pending
    /\ em.updateCount >= em.readbackQueue.frameNumberIssued + readbackWaitFrames
    /\ em.hasPbos

measurementLoopFrame(l, waitResult, measured) ==
    Eval(updateErrorLoop(l.em, waitResult, measured),
         LAMBDA after :
            [pc |-> "returned", em |-> after,
             gpu |-> readbacksAfter(l.gpu, l.em, after),
             pendingBefore |-> l.em.readbackQueue.pending,
             errorBefore |-> l.em.measuredError,
             waited |-> IF reachesFenceWait(l.em) THEN waitResult ELSE "none",
             returned |-> after.measuredError,
             waitFailed |-> l.waitFailed \/ (reachesFenceWait(l.em) /\ waitResult = "WAIT_FAILED")])

UpdateErrorLoop ==
    /\ meas.pc # "idle"
    /\ meas.em.updateCount < MaxErrFrames
    /\ \E waitResult \in WaitResults, measured \in Measurements :
          meas' = measurementLoopFrame(meas, waitResult, measured)
    /\ UNCHANGED <<labelVars, coverVars, projVars, gt, tf, tb>>

NextError == UpdateErrorLoop
InitError ==
    /\ scene = NoScene /\ IdleLabel /\ IdleCover /\ IdleProj
    /\ IdleGlobe /\ IdleConstrain /\ IdleBounds
    /\ meas \in {newMeasurementLoop(webgl2) : webgl2 \in BOOLEAN}
SpecError == InitError /\ [][NextError]_vars

----------------------------------------------------------------------------
(* Properties of the error measurement, checked under SpecError            *)

\* C12: at most one read-back is in flight: the read-backs in flight are
\* exactly the one _readbackQueue holds (none when it is null), and a call
\* that found a read-back pending has not issued another one.
C12_OneReadbackInFlight ==
    meas.pc = "returned" =>
        /\ Len(meas.gpu) <= 1
        /\ meas.gpu = IF meas.em.readbackQueue.pending
                      THEN <<meas.em.readbackQueue.frameNumberIssued>> ELSE <<>>
        /\ (meas.pendingBefore /\ meas.em.readbackQueue.pending) =>
               meas.em.readbackQueue.frameNumberIssued < meas.em.updateCount - 1
\* a second measurement has been issued after the first was read or given up
C12_Witness ==
    /\ meas.pc = "returned"
    /\ meas.em.readbackQueue.pending
    /\ meas.em.readbackQueue.frameNumberIssued > 0
    /\ Len(meas.gpu) = 1

\* C13: when the fence wait fails, the call returns (nothing in it throws),
\* the pending read-back is dropped, the value returned is the measured
\* error from before the call, and the wait for the next measurement starts
\* at this frame; once a wait has failed, a call made with nothing pending
\* and measureWaitFrames frames gone by issues a new measurement.
C13_FenceFailureDropsReadback ==
    /\ (meas.pc = "returned" /\ meas.waited = "WAIT_FAILED") =>
          /\ ~awaitingQuery(meas.em)
          /\ meas.gpu = <<>>
          /\ meas.returned = meas.errorBefore
          /\ meas.em.measuredError = meas.errorBefore
          /\ meas.em.lastReadbackFrame = meas.em.updateCount - 1
    /\ (meas.pc = "returned" /\ meas.waitFailed /\ ~awaitingQuery(meas.em)
           /\ meas.em.updateCount >= meas.em.lastReadbackFrame + measureWaitFrames) =>
          \A waitResult \in WaitResults, measured \in Measurements :
              awaitingQuery(updateErrorLoop(meas.em, waitResult, measured))
\* a wait failed while the measured error was 1, and later a new
\* measurement is in flight
C13_Witness ==
    /\ meas.pc = "returned"
    /\ meas.waitFailed
    /\ meas.em.measuredError = 1
    /\ awaitingQuery(meas.em)

----------------------------------------------------------------------------
(* The transitions of the projection manager on their own: the clock, the  *)
(* globe switch, the zoom threshold, the skip request and updateProjection *)
(* (SpecProj without the error measurement).                               *)

NextAnim ==
    \/ Tick \/ SetGlobeEnabled \/ SetZoom \/ SkipNextProjectionTransitionAnimation
    \/ UpdateProjection
SpecAnim == InitProj /\ [][NextAnim]_vars

RatInUnit(a) == ~RatLess(a, RatInt(0)) /\ ~RatLess(RatInt(1), a)

\* C14: whatever the globe switches (animated or skipped), zoom changes
\* across the threshold and updateProjection calls, at times that never
\* decrease, globeness is in [0, 1].
C14_GlobenessInUnitInterval == RatInUnit(pm.globeness)
\* in the middle of a transition that started after a skipped one
C14_Witness ==
    /\ RatLess(RatInt(0), pm.globeness) /\ RatLess(pm.globeness, RatInt(1))
    /\ pm.now > 0
    /\ pm.lastGlobeChangeTime > longAgo

\* What the zoom threshold allows after an updateProjection at this state
zoomGlobenessBound(p) ==
    IF p.lastLargeZoomState
    THEN RatSub(RatInt(1), clamp(Rat(p.now - p.lastLargeZoomStateChange, zoomTransitionTimeSeconds),
                                 RatInt(0), RatInt(1)))
    ELSE clamp(Rat(p.now - p.lastLargeZoomStateChange, zoomTransitionTimeSeconds),
               RatInt(0), RatInt(1))

----------------------------------------------------------------------------
(* MercatorTransform.getConstrained (src/unnamed/part_005, lines 440-529)  *)
(*                                                                         *)
(* Positions are world pixels.  Longitudes and latitudes are drawn from    *)
(* those whose mercator coordinate is a whole number of eighths of the     *)
(* world and are kept as that number (mercatorXfromLng and                 *)
(* mercatorYfromLat are increasing in longitude and decreasing in          *)
(* latitude; 0 is 180 W and about 85 N, 8 is 180 E and about 85 S).        *)
(* A zoom is base + log2(scale), kept as the pair.                         *)

tileSize == 512
WorldEighths == 8

\* util.wrap(n, min, max)
wrapTo(n, min, max) ==
    IF ((n - min) % (max - min)) + min = min THEN max ELSE ((n - min) % (max - min)) + min
\* zoomScale(zoom) is 2^zoom; scaleZoom(scale) is log2(scale).
zoomScale(zoom) == Pow2(zoom)
scaleZoom(zoom, scale) == [base |-> zoom.base, scale |-> RatMul(zoom.scale, scale)]
ZoomOf(z) == [base |-> z, scale |-> RatInt(1)]
\* base + log2(scale) <= z, and >= z
ZoomAtMost(zoom, z) ==
    IF z >= zoom.base THEN ~RatLess(RatInt(Pow2(z - zoom.base)), zoom.scale)
    ELSE ~RatLess(Rat(1, Pow2(zoom.base - z)), zoom.scale)
ZoomAtLeast(zoom, z) ==
    IF z >= zoom.base THEN ~RatLess(zoom.scale, RatInt(Pow2(z - zoom.base)))
    ELSE ~RatLess(zoom.scale, Rat(1, Pow2(zoom.base - z)))

NoRange == <<>>
\* mercatorXfromLng(lng) * worldSize and mercatorYfromLat(lat) * worldSize
mercatorTimesWorld(eighths, worldSize) == (eighths * worldSize) \div WorldEighths

\* lines 447-452: the longitude range in force.  Without world copies and
\* without a range it is the whole world short of 1e-10 degrees at each
\* end, which wrap() leaves at the two ends of the world.
constrainLngRange(t) ==
    IF ~t.renderWorldCopies /\ t.lngRange = NoRange THEN <<0, WorldEighths>> ELSE t.lngRange
constrainMinX(t, worldSize) ==
    IF constrainLngRange(t) = NoRange THEN 0
    ELSE IF ~t.renderWorldCopies /\ t.lngRange = NoRange THEN 0
    ELSE wrapTo(mercatorTimesWorld(constrainLngRange(t)[1], worldSize), 0, worldSize)
constrainMaxXWrapped(t, worldSize) ==
    IF constrainLngRange(t) = NoRange THEN worldSize
    ELSE wrapTo(mercatorTimesWorld(constrainLngRange(t)[2], worldSize), 0, worldSize)
\* line 483: if (maxX < minX) maxX += worldSize
constrainMaxX(t, worldSize) ==
    IF constrainLngRange(t) # NoRange /\ constrainMaxXWrapped(t, worldSize) < constrainMinX(t, worldSize)
    THEN constrainMaxXWrapped(t, worldSize) + worldSize
    ELSE constrainMaxXWrapped(t, worldSize)
\* lines 463-469: latRange is [south, north]
constrainMinY(t, worldSize) ==
    IF t.latRange = NoRange THEN 0 ELSE mercatorTimesWorld(t.latRange[2], worldSize)
constrainMaxY(t, worldSize) ==
    IF t.latRange = NoRange THEN worldSize ELSE mercatorTimesWorld(t.latRange[1], worldSize)
\* scaleY and scaleX: 0 unless the range is smaller than the screen
constrainScaleY(t, worldSize) ==
    IF t.latRange # NoRange /\ constrainMaxY(t, worldSize) - constrainMinY(t, worldSize) < t.height
    THEN Rat(t.height, constrainMaxY(t, worldSize) - constrainMinY(t, worldSize))
    ELSE RatInt(0)
constrainScaleX(t, worldSize) ==
    IF constrainLngRange(t) # NoRange /\ constrainMaxX(t, worldSize) - constrainMinX(t, worldSize) < t.width
    THEN Rat(t.width, constrainMaxX(t, worldSize) - constrainMinX(t, worldSize))
    ELSE RatInt(0)

\* unproject.call({worldSize}, point).wrap(): the longitude is wrapped into
\* (-180, 180], that is the mercator x into (0, world].
unprojectWrapped(x, y, worldSize) == [x |-> wrapTo(x, 0, worldSize), y |-> y, worldSize |-> worldSize]

\* lines 504-508 and 510-521: the centre moved so that the screen stays in
\* the ranges; Unmoved stands for undefined.
Unmoved == -1
constrainModifiedY(t, originalY, minY, maxY) ==
    IF t.latRange = NoRange THEN Unmoved
    ELSE IF originalY + t.height \div 2 > maxY THEN maxY - t.height \div 2
    ELSE IF originalY - t.height \div 2 < minY THEN minY + t.height \div 2
    ELSE Unmoved
constrainWrappedX(t, originalX, minX, maxX, worldSize) ==
    IF t.renderWorldCopies
    THEN wrapTo(originalX, (minX + maxX) \div 2 - worldSize \div 2, (minX + maxX) \div 2 + worldSize \div 2)
    ELSE originalX
constrainModifiedX(t, wrappedX, minX, maxX) ==
    IF constrainLngRange(t) = NoRange THEN Unmoved
    ELSE IF wrappedX + t.width \div 2 > maxX THEN maxX - t.width \div 2
    ELSE IF wrappedX - t.width \div 2 < minX THEN minX + t.width \div 2
    ELSE Unmoved

\* getConstrained for the clamped zoom, lines 454-528
constrainedAt(t, lngLat, zoom, worldSize, originalX, originalY) ==
    Eval(<<constrainMinX(t, worldSize), constrainMaxX(t, worldSize),
           constrainMinY(t, worldSize), constrainMaxY(t, worldSize),
           constrainScaleX(t, worldSize), constrainScaleY(t, worldSize)>>,
         LAMBDA r :
            IF RatMax(r[5], r[6]) # RatInt(0)
            THEN [center |-> unprojectWrapped(IF r[5] # RatInt(0) THEN (r[2] + r[1]) \div 2 ELSE originalX,
                                              IF r[6] # RatInt(0) THEN (r[4] + r[3]) \div 2 ELSE originalY,
                                              worldSize),
                  zoom |-> scaleZoom(ZoomOf(zoom), RatMax(r[5], r[6]))]
            ELSE Eval(<<constrainModifiedX(t, constrainWrappedX(t, originalX, r[1], r[2], worldSize), r[1], r[2]),
                        constrainModifiedY(t, originalY, r[3], r[4])>>,
                      LAMBDA mod :
                         IF mod[1] # Unmoved \/ mod[2] # Unmoved
                         THEN [center |-> unprojectWrapped(IF mod[1] # Unmoved THEN mod[1] ELSE originalX,
                                                           IF mod[2] # Unmoved THEN mod[2] ELSE originalY,
                                                           worldSize),
                               zoom |-> ZoomOf(zoom)]
                         ELSE [center |-> [x |-> originalX, y |-> originalY, worldSize |-> worldSize],
                               zoom |-> ZoomOf(zoom)]))

\* getConstrained(lngLat, zoom)
getConstrained(t, lngLat, zoom) ==
    Eval(Max(t.minZoom, Min(t.maxZoom, zoom)),
         LAMBDA z :
            constrainedAt(t, lngLat, z, tileSize * zoomScale(z),
                          mercatorTimesWorld(lngLat[1], tileSize * zoomScale(z)),
                          mercatorTimesWorld(lngLat[2], tileSize * zoomScale(z))))

\* Transforms: zoom limits, viewport, ranges ([south, north] and
\* [west, east], in eighths of the world), world copies.
ConstrainMinZooms == {0, 1}
ConstrainMaxZooms == {1, 2}
ConstrainSizes == {<<256, 256>>, <<1024, 512>>}
ConstrainLatRanges == {NoRange, <<8, 0>>, <<5, 3>>, <<4, 2>>}
ConstrainLngRanges == {NoRange, <<1, 7>>, <<3, 5>>, <<6, 2>>}
ConstrainTransforms ==
    {[pc |-> "constructed", minZoom |-> lo, maxZoom |-> hi, width |-> size[1], height |-> size[2],
      latRange |-> latRange, lngRange |-> lngRange, renderWorldCopies |-> copies] :
        lo \in ConstrainMinZooms, hi \in ConstrainMaxZooms, size \in ConstrainSizes,
        latRange \in ConstrainLatRanges, lngRange \in ConstrainLngRanges, copies \in BOOLEAN}
\* Requests: a centre and a zoom on both sides of the limits
ConstrainCenters == {<<0, 4>>, <<3, 1>>, <<4, 4>>, <<7, 6>>}
ConstrainZooms == -1..3

transformOf(t) ==
    [pc |-> "constructed", minZoom |-> t.minZoom, maxZoom |-> t.maxZoom, width |-> t.width,
     height |-> t.height, latRange |-> t.latRange, lngRange |-> t.lngRange,
     renderWorldCopies |-> t.renderWorldCopies]

GetConstrained ==
    /\ tf.pc # "idle"
    /\ \E lngLat \in ConstrainCenters, zoom \in ConstrainZooms :
          \E r \in {getConstrained(tf, lngLat, zoom)} :
              tf' = [pc |-> "returned", minZoom |-> tf.minZoom, maxZoom |-> tf.maxZoom,
                     width |-> tf.width, height |-> tf.height, latRange |-> tf.latRange,
                     lngRange |-> tf.lngRange, renderWorldCopies |-> tf.renderWorldCopies,
                     lngLat |-> lngLat, requested |-> zoom, center |-> r.center, zoom |-> r.zoom]
    /\ UNCHANGED <<labelVars, coverVars, projVars, gt, meas, tb>>

NextConstrain == GetConstrained
InitConstrain ==
    /\ scene = NoScene /\ IdleLabel /\ IdleCover /\ IdleProj
    /\ IdleGlobe /\ IdleError /\ IdleBounds
    /\ tf \in ConstrainTransforms
SpecConstrain == InitConstrain /\ [][NextConstrain]_vars

\* C18: the zoom getConstrained returns is within [minZoom, maxZoom].
C18_ConstrainedZoomInRange ==
    tf.pc = "returned" => ZoomAtLeast(tf.zoom, tf.minZoom) /\ ZoomAtMost(tf.zoom, tf.maxZoom)

----------------------------------------------------------------------------
(* placeGlyphAlongLine called twice with one ProjectionCache                *)
(* (projection.ts:508-539, 581-613, 670-678)                                *)

\* The cache the first call left, with the bookkeeping of that call cleared.
cacheLeftBy(r) == [r.cache EXCEPT !.reads = {}, !.projected = {}, !.anchorProjections = 0]

\* The call recorded in `call` made again, with the cache the first call left
\* and nothing else changed.
PlaceGlyphAlongLineAgain ==
    /\ lpc = "placed"
    /\ \E pa \in {ProjectionArgsOf(scene, call.tileAnchorPoint)} :
        \E r \in {placeGlyphAlongLine(call.offsetX, call.lineOffsetX, call.lineOffsetY,
                     call.flip, call.anchorSegment, scene.lineStartIndex,
                     scene.lineStartIndex + scene.lineLength, pa, cacheLeftBy(placed),
                     call.rotateToLine)} :
        /\ again' = r
        /\ lpc' = "placedAgain"
    /\ UNCHANGED <<scene, call, placed, stream, outcomes>>
    /\ UNCHANGED coverVars
    /\ UNCHANGED projVars
    /\ UNCHANGED moreVars

NextCache == PlaceGlyphAlongLine \/ PlaceGlyphAlongLineAgain

\* Label placement: any scene, one placement call, then the same call again.
SpecCache == InitLabel /\ [][NextCache]_vars

\* What placeGlyphAlongLine returns: null, or {point, angle, path}.
returnedGlyph(r) ==
    IF r.kind = "placed" THEN [kind |-> r.kind, point |-> r.point, angle |-> r.angle, path |-> r.path]
    ELSE [kind |-> r.kind]

\* C19: a second placeGlyphAlongLine call with identical arguments and the cache
\* of the first returns the same result and projects no vertex and no anchor
\* that the first call stored in the cache.
C19_SecondCallUsesCache ==
    lpc = "placedAgain" =>
        /\ returnedGlyph(again) = returnedGlyph(placed)
        /\ again.cache.projected \cap DOMAIN placed.cache.projections = {}
        /\ placed.cache.hasAnchor => again.cache.anchorProjections = 0

\* A repeated call that placed a glyph past two stored vertices with an offset
\* line, so both the projections and the offsets of the first call are reused.
C19_Witness ==
    /\ lpc = "placedAgain"
    /\ again.kind = "placed"
    /\ Cardinality(DOMAIN placed.cache.projections) >= 2
    /\ DOMAIN placed.cache.offsets # {}
    /\ placed.cache.hasAnchor

----------------------------------------------------------------------------
(* TileBounds (source/tile_bounds.ts)                                      *)

\* Coordinates of the mercator unit square are kept in thousandths.
Thousand == 1000

\* A JavaScript number: finite (v), NaN, or Infinity.
Num(v) == [kind |-> "num", v |-> v]
NaN == [kind |-> "NaN"]
Infinity == [kind |-> "Infinity"]

\* Math.floor, Math.ceil of n / d
Floor(n, d) == n \div d
Ceil(n, d) == -((-n) \div d)

\* function fract(x) { return x - Math.floor(x); }   (x in thousandths)
fract(x) == x - Thousand * Floor(x, Thousand)

\* mercatorXfromLng(lng) = (180 + lng) / 360, in thousandths; lng a multiple of 9/25
mercatorXfromLng(lng) == ((180 + lng) * 25) \div 9

\* tan(PI / 4 + lat * PI / 360) is negative: twice the angle lies in (180, 360)
tanNegative(lat) == ((90 + lat) % 360) > 180

\* mercatorYfromLat(lat) = (180 - (180 / PI * log(tan(PI / 4 + lat * PI / 360)))) / 360
\* in thousandths, for the latitudes of TileLats: the logarithm of a negative
\* tangent is NaN, of tan(0) at -90 is -Infinity, and tan(PI / 2) at 90 is the
\* finite double 1.6e16.
mercatorYTable ==
    (-80 :> 888) @@ (-60 :> 710) @@ (-45 :> 640) @@ (0 :> 500) @@ (45 :> 360)
        @@ (60 :> 290) @@ (80 :> 112) @@ (90 :> -5442)
mercatorYfromLat(lat) ==
    IF tanNegative(lat) THEN NaN
    ELSE IF lat = -90 THEN Infinity
    ELSE Num(mercatorYTable[lat])

\* Math.floor(y * worldSize), Math.ceil(y * worldSize)
floorTimes(y, worldSize) == IF y.kind = "num" THEN Num(Floor(y.v * worldSize, Thousand)) ELSE y
ceilTimes(y, worldSize) == IF y.kind = "num" THEN Num(Ceil(y.v * worldSize, Thousand)) ELSE y

\* n < e and n >= e for a finite n; every comparison with NaN is false
lessThan(n, e) == (e.kind = "num" /\ n < e.v) \/ e.kind = "Infinity"
atLeast(n, e) == e.kind = "num" /\ n >= e.v

\* mod(n, m) = ((n % m) + m) % m
mod(n, m) == n % m

\* bounds that are not an array of four numbers
NotAnArray == <<>>
NoZoom == -1

\* validateBounds(bounds)
validateBounds(bounds) ==
    IF Len(bounds) # 4 THEN <<-180, -90, 180, 90>>
    ELSE <<bounds[1], Max(-90, bounds[2]), bounds[3], Min(90, bounds[4])>>

\* A latitude LngLat accepts.
validLatitude(lat) == -90 <= lat /\ lat <= 90

\* new TileBounds(bounds, minzoom, maxzoom).  LngLatBounds.convert is handed
\* the validated bounds; given a latitude outside [-90, 90] it either rejects
\* them (throws) or keeps the numbers as they are: keeps says which.
newTileBounds(bounds, minzoom, maxzoom, keeps) ==
    LET valid == validateBounds(bounds) IN
    IF ~keeps /\ ~(validLatitude(valid[2]) /\ validLatitude(valid[4]))
    THEN [pc |-> "rejected", given |-> bounds]
    ELSE [pc |-> "built", given |-> bounds,
          bounds |-> [west |-> valid[1], south |-> valid[2], east |-> valid[3], north |-> valid[4]],
          minzoom |-> IF minzoom = NoZoom \/ minzoom = 0 THEN 0 ELSE minzoom,
          maxzoom |-> IF maxzoom = NoZoom \/ maxzoom = 0 THEN 24 ELSE maxzoom]

\* contains(tileID)
contains(t, tileID) ==
    LET worldSize == Pow2(tileID.z)
        \* Latitude test
        minY == floorTimes(mercatorYfromLat(t.bounds.north), worldSize)
        maxY == ceilTimes(mercatorYfromLat(t.bounds.south), worldSize)
        \* Longitude test with wrapping around the globe
        minX0 == fract(mercatorXfromLng(t.bounds.west))
        maxX0 == fract(mercatorXfromLng(t.bounds.east))
        maxX1 == IF minX0 >= maxX0 THEN maxX0 + Thousand ELSE maxX0
        minX == Floor(minX0 * worldSize, Thousand)
        maxX == Ceil(maxX1 * worldSize, Thousand)
        wrappedTileX == mod(tileID.x, worldSize)
    IN
    IF lessThan(tileID.y, minY) \/ atLeast(tileID.y, maxY) THEN FALSE
    ELSE (wrappedTileX >= minX /\ wrappedTileX < maxX)
            \/ (wrappedTileX + worldSize >= minX /\ wrappedTileX + worldSize < maxX)

\* Inputs: latitudes inside, on and beyond the limits, on either side.
TileLats == {-900, -100, -90, -60, 0, 45, 80, 90, 100, 900}
TileLngs == {<<-180, 180>>, <<0, 180>>, <<0, 270>>, <<-270, 0>>}
TileBoundsInputs ==
    {NotAnArray} \cup {<<lng[1], south, lng[2], north>> : lng \in TileLngs, south \in TileLats, north \in TileLats}
MaxTileZ == 2
TileIDs == {[z |-> z, x |-> x, y |-> y] : z \in 0..MaxTileZ, x \in 0..(Pow2(MaxTileZ) - 1), y \in 0..(Pow2(MaxTileZ) - 1)}
CanonicalTileIDs == {id \in TileIDs : id.x < Pow2(id.z) /\ id.y < Pow2(id.z)}

\* new TileBounds(bounds, minzoom, null)
NewTileBounds ==
    /\ tb.pc = "idle"
    /\ \E bounds \in TileBoundsInputs, minzoom \in {NoZoom, 1}, keeps \in BOOLEAN :
        tb' = newTileBounds(bounds, minzoom, NoZoom, keeps)
    /\ UNCHANGED <<labelVars, coverVars, projVars, gt, meas, tf>>

\* tileBounds.contains(tileID)
Contains ==
    /\ tb.pc = "built"
    /\ \E tileID \in CanonicalTileIDs :
        tb' = [pc |-> "asked", given |-> tb.given, bounds |-> tb.bounds,
               minzoom |-> tb.minzoom, maxzoom |-> tb.maxzoom,
               tileID |-> tileID, answer |-> contains(tb, tileID)]
    /\ UNCHANGED <<labelVars, coverVars, projVars, gt, meas, tf>>

NextBounds == NewTileBounds \/ Contains

InitBounds ==
    /\ scene = NoScene /\ IdleLabel /\ IdleCover /\ IdleProj
    /\ IdleGlobe /\ IdleError /\ IdleConstrain /\ IdleBounds
SpecBounds == InitBounds /\ [][NextBounds]_vars

\* The given bounds with both latitudes clamped to [-90, 90].
clampedLatitudes(bounds) ==
    <<bounds[1], Min(90, Max(-90, bounds[2])), bounds[3], Min(90, Max(-90, bounds[4]))>>

\* The given bounds have a latitude outside [-90, 90].
latitudeOutside(bounds) ==
    Len(bounds) = 4 /\ ~(validLatitude(bounds[2]) /\ validLatitude(bounds[4]))

\* C20: bounds with a south or north latitude outside [-90, 90] are accepted,
\* and contains() answers every tile as the TileBounds built from the bounds
\* with those latitudes clamped to [-90, 90] does.
C20_LatitudeClamped ==
    (tb.pc # "idle" /\ latitudeOutside(tb.given)) =>
        /\ tb.pc # "rejected"
        /\ tb.pc = "asked" =>
              tb.answer = contains(newTileBounds(clampedLatitudes(tb.given), NoZoom, NoZoom, TRUE), tb.tileID)

----------------------------------------------------------------------------
(* The split decision of the coverage traversal, checked under SpecCover   *)

\* The node of the quadtree a returned or an ancestor tile stands for, as the
\* flat traversal holds it: its aabb is in tiles of the target zoom.
flatNodeOf(wrap, zoom, x, y, maxZoom) ==
    [aabb |-> Aabb((wrap * Pow2(maxZoom) + x * Pow2(maxZoom - zoom)) * Unit,
                   y * Pow2(maxZoom - zoom) * Unit,
                   (wrap * Pow2(maxZoom) + (x + 1) * Pow2(maxZoom - zoom)) * Unit,
                   (y + 1) * Pow2(maxZoom - zoom) * Unit),
     zoom |-> zoom, x |-> x, y |-> y, wrap |-> wrap]

\* longestDim > distToSplit (part_005:156-166): the distance of the node from
\* the center point, in tiles of the target zoom, exceeds the threshold of its
\* level.
flatBeyondThreshold(it, centerPoint, maxZoom) ==
    Max(Abs(AabbDistanceX(it.aabb, centerPoint)), Abs(AabbDistanceY(it.aabb, centerPoint)))
        > distToSplit(maxZoom, it.zoom)

\* Math.min(centerDist, cameraDist) (globe_covering_tiles.ts:133-134), in
\* units of the world.
globeDistance(zoom, x, y, camera) ==
    Min(distanceToTile(camera.center.x, camera.center.y, x * globeTileSize(zoom),
                       y * globeTileSize(zoom), globeTileSize(zoom)),
        distanceToTile(camera.cameraCoord.x, camera.cameraCoord.y,
                       x * globeTileSize(zoom), y * globeTileSize(zoom), globeTileSize(zoom)))

\* The distance of the node, counted in widths of its own tile and doubled
\* for the half-size children, exceeds radiusOfMaxLvlLodInTiles.
globeBeyondThreshold(zoom, x, y, camera) ==
    globeDistance(zoom, x, y, camera) * 2 > radiusOfMaxLvlLodInTiles * globeTileSize(zoom)

\* The node (zoom, x, y) of world copy wrap is beyond the threshold of its
\* level in the traversal that was run.
BeyondThreshold(wrap, zoom, x, y) ==
    IF cov.op = "coveringTiles"
    THEN flatBeyondThreshold(flatNodeOf(wrap, zoom, x, y, CoverMaxZoom),
                             PMult(cov.camera.center, Pow2(CoverMaxZoom)), CoverMaxZoom)
    ELSE globeBeyondThreshold(zoom, x, y, cov.camera)

\* The ancestor at zoom z of a tile: it was visited, found visible and split.
AncestorX(tile, z) == tile.x \div Pow2(tile.z - z)
AncestorY(tile, z) == tile.y \div Pow2(tile.z - z)

\* The wrap the node of a leaf had in the traversal (the spherical traversal
\* has one world copy and computes the wrap of the tile id afterwards).
NodeWrap(tile) == IF cov.op = "coveringTiles" THEN tile.wrap ELSE 0

\* C21: a visible node shallower than the target zoom is emitted as a leaf
\* exactly when its distance from the focus point in tile widths exceeds the
\* threshold of its level, and is split otherwise, in the flat and in the
\* spherical traversal: every leaf above the target zoom is beyond its
\* threshold, and every node that was split (every ancestor of a leaf) is
\* within it.
C21_SplitExactlyWithinThreshold ==
    Covered =>
        \A i \in 1..Len(result) :
            LET tile == result[i].tileID IN
            /\ tile.z < CoverMaxZoom => BeyondThreshold(NodeWrap(tile), tile.z, tile.x, tile.y)
            /\ \A z \in 0..(tile.z - 1) :
                  ~BeyondThreshold(NodeWrap(tile), z, AncestorX(tile, z), AncestorY(tile, z))

----------------------------------------------------------------------------
(* updateLineLabels on a bucket of three symbols: a horizontal symbol, any  *)
(* symbol, and a vertical symbol (projection.ts:205-260)                    *)

\* bucket.glyphOffsetArray for three symbols: a run of MaxGlyphs offsets each
GlyphOffsetArrayOfThree(start) ==
    LET all == GlyphRun(start) \o GlyphRun(start) \o GlyphRun(start)
    IN [i \in 0..(Len(all) - 1) |-> all[i + 1]]

\* (writingMode, hidden) of the symbol between the two: the vertical partner
\* of the first, shown or hidden, or the horizontal symbol of the next pair,
\* shown or hidden.
MiddleSymbols ==
    {<<Vertical, FALSE>>, <<Vertical, TRUE>>, <<Horizontal, FALSE>>, <<Horizontal, TRUE>>}

\* updateLineLabels on a bucket of three symbols; the whole handler.
UpdateLineLabelsOfThree ==
    /\ lpc = "idle"
    /\ \E a \in Anchors(scene), b \in Anchors(scene), start \in RunStarts, numGlyphs \in {1, 3},
          middle \in MiddleSymbols, lastHidden \in BOOLEAN, keepUpright \in BOOLEAN :
        \E bucket \in {[lineVertexArray |-> scene.lineVertexArray,
                         glyphOffsetArray |-> GlyphOffsetArrayOfThree(start),
                         placedSymbols |->
                             <<PlacedSymbol(scene, a, 1, numGlyphs, Horizontal, FALSE, 0, 1),
                               PlacedSymbol(scene, IF middle[1] = Vertical THEN a ELSE b, 2,
                                            numGlyphs, middle[1], middle[2], 0, 1),
                               PlacedSymbol(scene, b, 3, numGlyphs, Vertical, lastHidden, 0, 1)>>]} :
        \E r \in {updateLineLabels(bucket, scene.posMatrix, scene.special, keepUpright,
                                   TRUE)} :
        /\ r.kind # "inexact"
        /\ call' = [op |-> "updateLineLabels", bucket |-> bucket,
                    keepUpright |-> keepUpright]
        /\ stream' = r.array
        /\ outcomes' = r.log
        /\ lpc' = IF r.kind = "throw" THEN "updateThrew" ELSE "updated"
    /\ UNCHANGED <<scene, placed, again>>
    /\ UNCHANGED coverVars
    /\ UNCHANGED projVars
    /\ UNCHANGED moreVars

NextVertical == UpdateLineLabels \/ UpdateLineLabelsOfThree

\* Label placement: any scene, then one updateLineLabels on a bucket of two or
\* of three symbols.
SpecVertical == InitLabel /\ [][NextVertical]_vars

\* Glyph positions were computed for symbol s: the loop did not skip it as
\* hidden or as a vertical symbol without use-vertical.
Computed(s) == s <= Len(outcomes) /\ outcomes[s].tag # "skipped"

\* Symbol s - 1 is the horizontal counterpart of the vertical symbol s: the
\* horizontal symbol of the same anchor.
CounterpartBefore(s) ==
    /\ s > 1
    /\ call.bucket.placedSymbols[s - 1].writingMode = Horizontal
    /\ call.bucket.placedSymbols[s - 1].anchorX = call.bucket.placedSymbols[s].anchorX
    /\ call.bucket.placedSymbols[s - 1].anchorY = call.bucket.placedSymbols[s].anchorY
    /\ call.bucket.placedSymbols[s - 1].segment = call.bucket.placedSymbols[s].segment

\* C22: glyph positions are computed for a vertical symbol only if the symbol
\* immediately before it is its horizontal counterpart and that counterpart
\* returned use-vertical in the same pass.
C22_VerticalOnlyAfterCounterpart ==
    lpc \in {"updated", "updateThrew"} =>
        \A s \in 1..Len(outcomes) :
            (call.bucket.placedSymbols[s].writingMode = Vertical /\ Computed(s)) =>
                /\ CounterpartBefore(s)
                /\ outcomes[s - 1].tag = "useVertical"

----------------------------------------------------------------------------
(* The attempts of updateLineLabels on one symbol (projection.ts:250-260),  *)
(* checked under SpecLabel                                                  *)

\* projectionArgs of symbol s of the bucket updateLineLabels was called with
symbolProjectionArgs(s) ==
    [special |-> scene.special, pitchWithMap |-> FALSE,
     labelPlaneMatrix |-> getLabelPlaneMatrix(scene.posMatrix),
     globeMatrix |-> scene.posMatrix,
     lineVertexArray |-> call.bucket.lineVertexArray,
     tileAnchorPoint |-> Pt(call.bucket.placedSymbols[s].anchorX,
                            call.bucket.placedSymbols[s].anchorY)]

\* const placeUnflipped = placeGlyphsAlongLine(projectionArgs, symbol, ..., false, ...)
unflippedAttempt(s) ==
    placeGlyphsAlongLine(symbolProjectionArgs(s), EmptyCache, call.bucket.placedSymbols[s],
        call.bucket.placedSymbols[s].fontScale, FALSE, call.keepUpright, scene.posMatrix,
        getGlCoordMatrix, call.bucket.glyphOffsetArray, <<>>, TRUE, s)

\* placeGlyphsAlongLine(projectionArgs, symbol, ..., true, ...): the second
\* attempt, made with the projection cache the first one left
flippedAttempt(s) ==
    placeGlyphsAlongLine(symbolProjectionArgs(s), unflippedAttempt(s).cache,
        call.bucket.placedSymbols[s], call.bucket.placedSymbols[s].fontScale, TRUE,
        call.keepUpright, scene.posMatrix, getGlCoordMatrix, call.bucket.glyphOffsetArray,
        unflippedAttempt(s).array, TRUE, s)

\* The attempts made on symbol s, by the tag each returned: the second is
\* made only when the first returned needsFlipping.
attemptsOn(s) ==
    IF unflippedAttempt(s).tag = "needsFlipping"
    THEN <<unflippedAttempt(s).tag, flippedAttempt(s).tag>>
    ELSE <<unflippedAttempt(s).tag>>

\* updateLineLabels reached placeGlyphsAlongLine for symbol s.
Attempted(s) == outcomes[s].tag \notin {"skipped", "invisible"}

OrientationChanges == {"needsFlipping", "useVertical"}

\* C23: placeGlyphsAlongLine returns needs-flip or use-vertical only when
\* keep-upright is requested and the attempt is the unflipped one; a symbol is
\* attempted at most twice, and the flipped attempt ends by writing the glyphs
\* ("") or by reporting not enough room.
C23_FlippedAttemptIsFinal ==
    lpc \in {"updated", "updateThrew"} =>
        \A s \in 1..Len(outcomes) :
            Attempted(s) =>
                /\ Len(attemptsOn(s)) <= 2
                /\ attemptsOn(s)[1] \in OrientationChanges => call.keepUpright
                /\ Len(attemptsOn(s)) = 2 => attemptsOn(s)[2] \in {"", "notEnoughRoom"}

----------------------------------------------------------------------------
(* The error correction of the projection manager on its own: the clock and *)
(* updateGPUdependent, over enough frames for two read-backs                *)
(* (projection_manager.ts:170-190)                                          *)

MaxCorrectionFrames == 13

\* updateGPUdependent(painter), once per frame
UpdateCorrection ==
    /\ pm.errorMeasurement.updateCount < MaxCorrectionFrames
    /\ \E waitResult \in WaitResults, measured \in Measurements :
          pm' = [updateGPUdependent(pm, waitResult, measured)
                    EXCEPT !.asked = FALSE, !.dirty = "none"]
    /\ UNCHANGED labelVars
    /\ UNCHANGED coverVars
    /\ UNCHANGED moreVars

NextCorrection == Tick \/ UpdateCorrection
SpecCorrection == InitProj /\ [][NextCorrection]_vars

\* |a - b| for rationals
RatDistance(a, b) == IF RatLess(a, b) THEN RatSub(b, a) ELSE RatSub(a, b)

\* The correction the transition heads for: the negated last measurement
correctionTarget(p) == RatInt(-p.errorMeasurementLastValue)

\* The step is an updateGPUdependent call.
CorrectionUpdated ==
    pm'.errorMeasurement.present
        /\ (~pm.errorMeasurement.present
               \/ pm'.errorMeasurement.updateCount # pm.errorMeasurement.updateCount)

\* C24: the update that receives a measured error different from the last one
\* leaves the usable correction where the previous update put it; every
\* update moves it no further from the negated last measurement, and an
\* update made once the error transition time has passed puts it there.
C24_CorrectionDoesNotJump ==
    [][/\ pm'.errorMeasurementLastValue # pm.errorMeasurementLastValue
            => pm'.errorCorrectionUsable = pm.errorCorrectionUsable
       /\ CorrectionUpdated =>
            /\ ~RatLess(RatDistance(pm.errorCorrectionUsable, correctionTarget(pm')),
                        RatDistance(pm'.errorCorrectionUsable, correctionTarget(pm')))
            /\ pm'.now - pm'.errorMeasurementLastChangeTime >= errorTransitionTimeSeconds
                  => pm'.errorCorrectionUsable = correctionTarget(pm')]_vars

\* A second measurement arrived while the correction was still on its way to
\* the first: the transition restarted from an interpolated value.
C24_Witness ==
    /\ pm.errorMeasurement.present
    /\ pm.errorMeasurementLastChangeTime > 0
    /\ pm.errorCorrectionPreviousValue.d > 1
    /\ pm.errorCorrectionUsable = pm.errorCorrectionPreviousValue

----------------------------------------------------------------------------
(* The two waits of the error measurement loop, checked under SpecError     *)

\* The step issued a measurement: it leaves a read-back it did not find.
MeasurementDrawn ==
    meas'.em.readbackQueue.pending /\ meas'.em.readbackQueue # meas.em.readbackQueue

\* The step attempted the pending read-back: it asked the fence, or it
\* left no read-back where it found one.
ReadbackAttempted ==
    \/ meas'.waited # "none"
    \/ meas.em.readbackQueue.pending /\ ~meas'.em.readbackQueue.pending

\* C25: a measurement is drawn only by an update that found no read-back
\* pending and whose frame is at least 4 after the frame in which the last
\* read-back completed or was abandoned; a pending read-back is attempted
\* only by an update whose frame is at least 4 after the frame that issued
\* it.
C25_WaitsBeforeMeasuringAndReading ==
    [][/\ MeasurementDrawn =>
            /\ ~meas.em.readbackQueue.pending
            /\ meas.em.updateCount >= meas.em.lastReadbackFrame + 4
            /\ meas'.em.readbackQueue.frameNumberIssued = meas.em.updateCount
       /\ ReadbackAttempted =>
            /\ meas.em.readbackQueue.pending
            /\ meas.em.updateCount >= meas.em.readbackQueue.frameNumberIssued + 4]_vars

\* a measurement was drawn in the first frame that allowed it after a
\* read-back, which itself was made in the first frame that allowed it
C25_Witness ==
    /\ meas.pc = "returned"
    /\ meas.em.readbackQueue.pending
    /\ meas.em.lastReadbackFrame = 4
    /\ meas.em.readbackQueue.frameNumberIssued = 8
    /\ meas.em.updateCount = 9

----------------------------------------------------------------------------
(* The error measurement loop run without end (updateErrorLoop,            *)
(* projection_manager.ts:606-624, _tryReadback, 678-710).                  *)
(* The loop compares frame numbers only by their difference               *)
(* (currentFrame >= frame + wait), so the frames are counted from a moving *)
(* origin: once _updateCount passes FrameWindow every frame number is     *)
(* lowered by one, and a frame that falls behind the origin is kept at    *)
(* the origin, where it is still older than either wait.                   *)

FrameWindow == 8

rebaseFrame(f) == IF f = neverReadBack THEN f ELSE Max(f - 1, 0)

rebased(l) ==
    IF l.em.updateCount <= FrameWindow
    THEN l
    ELSE [l EXCEPT !.em.updateCount = @ - 1,
                   !.em.lastReadbackFrame = rebaseFrame(@),
                   !.em.readbackQueue.frameNumberIssued =
                       IF l.em.readbackQueue.pending THEN rebaseFrame(@) ELSE @,
                   !.gpu = [i \in DOMAIN @ |-> rebaseFrame(@[i])]]

\* updateErrorLoop, once per frame, for as long as the map renders
UpdateErrorLoopAgain ==
    /\ meas.pc # "idle"
    /\ \E waitResult \in WaitResults, measured \in Measurements :
          meas' = rebased(measurementLoopFrame(meas, waitResult, measured))
    /\ UNCHANGED <<labelVars, coverVars, projVars, gt, tf, tb>>

\* An update whose fence wait is answered: the fence signalled or failed.
FenceSettles ==
    /\ reachesFenceWait(meas.em)
    /\ UpdateErrorLoopAgain
    /\ meas'.waited \in {"CONDITION_SATISFIED", "WAIT_FAILED"}

NextErrorLive == UpdateErrorLoopAgain

\* Updates keep being called, and a fence that is waited for does not stay
\* unsignalled for ever.
SpecErrorLive ==
    InitError /\ [][NextErrorLive]_vars
        /\ WF_vars(UpdateErrorLoopAgain) /\ WF_vars(FenceSettles)

\* C26: an update that finds the fence not yet signalled returns with the
\* read-back still pending and the measured error as it was; every pending
\* read-back is eventually completed or abandoned, and whenever none is
\* pending a new measurement is eventually issued.
C26_ReadbackEventuallySettles ==
    /\ []((meas.pc = "returned" /\ meas.waited = "TIMEOUT_EXPIRED") =>
             /\ awaitingQuery(meas.em)
             /\ meas.pendingBefore
             /\ meas.em.measuredError = meas.errorBefore)
    /\ (awaitingQuery(meas.em) ~> ~awaitingQuery(meas.em))
    /\ ((meas.pc # "idle" /\ ~awaitingQuery(meas.em)) ~> awaitingQuery(meas.em))

\* a fence was found unsignalled for the third time in a row and the
\* read-back is still pending
C26_Witness ==
    /\ meas.pc = "returned"
    /\ meas.waited = "TIMEOUT_EXPIRED"
    /\ awaitingQuery(meas.em)
    /\ meas.em.updateCount = meas.em.readbackQueue.frameNumberIssued + readbackWaitFrames + 3

----------------------------------------------------------------------------
(* The line vertices a placement reads, checked under SpecLabel            *)

\* The indices of the label's own line
OwnLine(sc) == sc.lineStartIndex..(sc.lineStartIndex + sc.lineLength - 1)

\* C27: a placeGlyphAlongLine call has read lineVertexArray only at indices
\* of the label's own line, lineStartIndex <= i < lineEndIndex, whatever it
\* returned.
C27_ReadsStayOnOwnLine ==
    (lpc \in {"placed", "threw"} /\ call.op = "placeGlyphAlongLine") =>
        placed.cache.reads \subseteq OwnLine(scene)

----------------------------------------------------------------------------
(* The areas of the returned tiles, checked under SpecCover                *)

\* Tile a is a proper ancestor of tile b in the same world copy.
IsAncestor(a, b) ==
    /\ a.wrap = b.wrap
    /\ a.z < b.z
    /\ AncestorX(b, a.z) = a.x
    /\ AncestorY(b, a.z) = a.y

\* C28: no returned tile is an ancestor or a descendant of another returned
\* tile of the same world copy.
C28_ReturnedTilesDisjoint ==
    Covered =>
        \A i, j \in 1..Len(result) :
            ~IsAncestor(result[i].tileID, result[j].tileID)

\* tiles of two zoom levels were returned for one world copy, the coarser
\* one next to the parent of the finer one
C28_Witness ==
    /\ Covered
    /\ \E i, j \in 1..Len(result) :
          /\ result[i].tileID.wrap = result[j].tileID.wrap
          /\ result[i].tileID.z < result[j].tileID.z
          /\ Abs(AncestorX(result[j].tileID, result[i].tileID.z) - result[i].tileID.x) <= 1
          /\ Abs(AncestorY(result[j].tileID, result[i].tileID.z) - result[i].tileID.y) <= 1

----------------------------------------------------------------------------
(* The nodes the coverage traversal pushes (part_005:124-197,              *)
(* globe_covering_tiles.ts:64-173): how many were popped, how deep the     *)
(* deepest was, and whether the stack ran empty before the traversal went  *)
(* TraversalDepth levels down.                                             *)

TraversalDepth == MaxZ + 2

Popped(zoom) == [ended |-> TRUE, nodes |-> 1, deepest |-> zoom]
NothingPopped == [ended |-> TRUE, nodes |-> 0, deepest |-> 0]
\* the nodes popped in t and then those popped in u
Then(t, u) ==
    [ended |-> t.ended /\ u.ended, nodes |-> t.nodes + u.nodes,
     deepest |-> Max(t.deepest, u.deepest)]

\* The loop of part_005:140-197 from the node it on
RECURSIVE flatTraversal(_, _, _)
flatTraversal(it, env, levels) ==
    IF levels = 0 THEN [Popped(it.zoom) EXCEPT !.ended = FALSE]
    ELSE
    Eval(IF it.fullyVisible THEN 2 ELSE AabbIntersects(it.aabb, env.cameraFrustum),
         LAMBDA intersectResult :
            IF intersectResult = 0 \/ flatStopsAt(it, env) THEN Popped(it.zoom)
            ELSE Then(Popped(it.zoom),
                 Then(flatTraversal(flatChild(it, 3, intersectResult = 2), env, levels - 1),
                 Then(flatTraversal(flatChild(it, 2, intersectResult = 2), env, levels - 1),
                 Then(flatTraversal(flatChild(it, 1, intersectResult = 2), env, levels - 1),
                      flatTraversal(flatChild(it, 0, intersectResult = 2), env, levels - 1))))))

RECURSIVE flatTraversalRoots(_, _, _)
flatTraversalRoots(roots, n, env) ==
    IF n > Len(roots) THEN NothingPopped
    ELSE Then(flatTraversal(newRootTile(roots[n], Pow2(env.maxZoom)), env, TraversalDepth),
              flatTraversalRoots(roots, n + 1, env))

\* The loop of globe_covering_tiles.ts:104-170 from the node it on
RECURSIVE globeTraversal(_, _, _)
globeTraversal(it, env, levels) ==
    IF levels = 0 THEN [Popped(it.zoom) EXCEPT !.ended = FALSE]
    ELSE
    Eval(IF it.fullyVisible THEN 2 ELSE isTileVisible(env.camera, it.x, it.y, it.zoom),
         LAMBDA intersectResult :
            IF intersectResult = 0 \/ it.zoom = env.maxZoom \/ ~globeSplit(it, env.camera)
            THEN Popped(it.zoom)
            ELSE Then(Popped(it.zoom),
                 Then(globeTraversal(globeChild(it, 3, intersectResult = 2), env, levels - 1),
                 Then(globeTraversal(globeChild(it, 2, intersectResult = 2), env, levels - 1),
                 Then(globeTraversal(globeChild(it, 1, intersectResult = 2), env, levels - 1),
                      globeTraversal(globeChild(it, 0, intersectResult = 2), env, levels - 1))))))

\* The traversal of the call that was made
Traversal ==
    Eval(coveringZoomLevel(cov.camera), LAMBDA actualZ :
        IF cov.options.minzoom # Undefined /\ actualZ < cov.options.minzoom THEN NothingPopped
        ELSE
        Eval(clampedZoom(actualZ, cov.options), LAMBDA z :
            IF cov.op = "coveringTiles"
            THEN flatTraversalRoots(flatRoots(cov.camera.renderWorldCopies), 1,
                    [maxZoom |-> z,
                     minZoom |-> lodMinZoom(cov.camera, cov.options, z),
                     centerPoint |-> PMult(cov.camera.center, Pow2(z)),
                     cameraFrustum |-> FrustumAtZoom(cov.camera, z)])
            ELSE globeTraversal([zoom |-> 0, x |-> 0, y |-> 0, fullyVisible |-> FALSE],
                    [maxZoom |-> z, camera |-> cov.camera], TraversalDepth)))

\* The nodes of a quadtree of the given depth: 1 + 4 + ... + 4^depth
RECURSIVE QuadtreeNodes(_)
QuadtreeNodes(depth) == IF depth = 0 THEN 1 ELSE 1 + 4 * QuadtreeNodes(depth - 1)

\* minzoom and maxzoom are non-negative integers or left out, minzoom not
\* above maxzoom
ZoomRangeInOrder(options) ==
    \/ options.minzoom = Undefined
    \/ options.maxzoom = Undefined
    \/ options.minzoom <= options.maxzoom

\* C29: for options with minzoom <= maxzoom the traversal ends: the stack
\* runs empty after at most the nodes of one quadtree of the clamped target
\* depth per root, and no node deeper than the clamped target zoom is
\* pushed.
C29_TraversalEnds ==
    (Covered /\ ZoomRangeInOrder(cov.options)) =>
        /\ Traversal.ended
        /\ Traversal.deepest <= CoverMaxZoom
        /\ Traversal.nodes <= 7 * QuadtreeNodes(CoverMaxZoom)

\* the traversal went down to target zoom 3 and popped nodes it did not
\* return
C29_Witness ==
    /\ Covered /\ ZoomRangeInOrder(cov.options)
    /\ CoverMaxZoom = 3
    /\ Traversal.deepest = 3
    /\ Traversal.nodes > Len(result) + 8

----------------------------------------------------------------------------
(* Switching the globe in the middle of its transition, checked under      *)
(* SpecAnim                                                                *)

\* The manager as the switch found it
beforeToggle(p) == [p EXCEPT !.globeEnabled = p.lastGlobeStateEnabled]

\* The last updateProjection was made at this instant: one more at the old
\* switch position would change nothing.
UpdatedAtThisInstant(p) == updateAnimation(beforeToggle(p)) = beforeToggle(p)

\* The globe transition was still in progress when the switch was toggled.
ToggledInTransition(p) ==
    /\ p.globeEnabled # p.lastGlobeStateEnabled
    /\ ~p.skipNextAnimation
    /\ p.now - p.lastGlobeChangeTime < globeTransitionTimeSeconds

\* C30: an updateProjection that follows a toggle made during the globe
\* transition, at the time instant of the update before the toggle, leaves
\* globeness at the value of that earlier update.
C30_ToggleDoesNotJump ==
    [][(/\ ToggledInTransition(pm)
        /\ UpdatedAtThisInstant(pm)
        /\ pm'.lastGlobeStateEnabled # pm.lastGlobeStateEnabled)
          => pm'.globeness = pm.globeness]_vars

====
